---- MODULE Spec2Model ----
(***************************************************************************)
(* Model of the aggregation / diff engine of the accessibility audit tool. *)
(*                                                                         *)
(* Strings the code inspects character by character (page URLs, selector   *)
(* paths, occurrence keys) are sequences of tokens; the tokens "/", "#",   *)
(* "|", " " and ">" are the characters the code looks for, every other     *)
(* token stands for a run of ordinary characters.                          *)
(***************************************************************************)
EXTENDS Integers, Sequences, FiniteSets, TLC

VARIABLES
    files,      \* the results directory: file name -> content (NoFile if absent)
    pc,         \* position of the running script / harness
    run,        \* the run in progress: site url and slug, timestamp, pages audited
    rules,      \* the caller's `rules` array (the objects diffRules is handed)
    ret,        \* what diffRules returned, one entry per call
    calls,      \* number of diffRules calls made on `rules`
    runNo,      \* number of runs started: the clock behind createAuditFiles' timestamp
    given,      \* the rule list as it was when first handed to diffRules
    kin,        \* inputs of the occurrence-key harness
    kout,       \* keys computed by the occurrence-key harness
    progress,   \* server.js: the `progress` object polled by the front end
    runningAuditProcess, \* server.js: the child the cancel endpoint would kill
    audits,     \* server.js: the audits started, each with the position of its pipeline
    isShuttingDown, \* run-audit / runAudit: the flag set by the signal handler
    browser,    \* run-audit / runAudit: the `browser` variable
    results     \* run-audit / runAudit: the `results` array

procVars == <<progress, runningAuditProcess, audits, isShuttingDown, browser, results>>

vars == <<files, pc, run, rules, ret, calls, runNo, given, kin, kout, procVars>>

----------------------------------------------------------------------------
(* Bounds *)

\* occurrences in the current rule set handed to diffRules (SpecDiff)
MaxCurOcc == 2
\* occurrences in the previous snapshot file (SpecDiff)
MaxPrevOcc == 2
\* selector segments of one matched element (SpecKey)
MaxSegs == 2
\* consecutive runs of process-results (Spec)
MaxRuns == 2

\* scan records per aggregation, and rules one page reports
MaxAggPages == 2
MaxViolations == 2
\* scan records of the priority summary's inputs
MaxSumPages == 2
\* urls of one scan (SpecScan)
MaxUrls == 2
\* audits started on the server (SpecServer)
MaxAudits == 2
\* pages one rule is found on (SpecScore)
MaxReach == 100
\* files in a results directory (SpecHist)
MaxHistFiles == 12

----------------------------------------------------------------------------
(* JavaScript string helpers *)

Idle == <<>>

\* the server and the scan process take no part in the processing of results
NoProcess ==
    /\ progress = Idle /\ runningAuditProcess = Idle /\ audits = Idle
    /\ isShuttingDown = FALSE /\ browser = Idle /\ results = Idle

NoFile == [kind |-> "absent"]
Null == [isNull |-> TRUE]

Min(S) == CHOOSE x \in S : \A y \in S : x <= y

\* a JavaScript number is either NaN or a value
NaN == [isNaN |-> TRUE, value |-> 0]
Number(n) == [isNaN |-> FALSE, value |-> n]

RECURSIVE SumSeq(_)
SumSeq(ns) == IF Len(ns) = 0 THEN 0 ELSE ns[1] + SumSeq(Tail(ns))

\* s.replace(/\/$/, '')
StripTrailingSlash(s) ==
    IF Len(s) > 0 /\ s[Len(s)] = "/" THEN SubSeq(s, 1, Len(s) - 1) ELSE s

\* s.split('#')[0]
BeforeHash(s) ==
    LET idx == {i \in 1..Len(s) : s[i] = "#"}
    IN  IF idx = {} THEN s ELSE SubSeq(s, 1, Min(idx) - 1)

RECURSIVE Join(_, _)
\* Array.prototype.join(sep)
Join(items, sep) ==
    IF Len(items) = 0 THEN <<>>
    ELSE IF Len(items) = 1 THEN items[1]
    ELSE items[1] \o sep \o Join(Tail(items), sep)

\* the separator ' > ' used by aggregateRules and getOccurrenceKey
SelectorSep == <<" ", ">", " ">>

\* a selector path as axe delivers it (array) and as a snapshot stores it (string)
ArrayTarget(segs) == [isArray |-> TRUE, items |-> segs]
StringTarget(str) == [isArray |-> FALSE, str |-> str]

\* node.target.join(' > ') of aggregateRules
JoinTarget(target) == StringTarget(Join(target.items, SelectorSep))

----------------------------------------------------------------------------
(* lib/diff/diffRules.js *)

\* faulty variant: joins the segments with '>' instead of ' > '
getOccurrenceKeyBareSep(page, ruleId, node) ==
    LET cleanPage == BeforeHash(StripTrailingSlash(page))
        selector == IF node.target.isArray
                    THEN Join(node.target.items, <<">">>)
                    ELSE node.target.str
    IN  cleanPage \o <<"|">> \o ruleId \o <<"|">> \o selector

\* faulty variant: the key also carries the html snippet
getOccurrenceKeyWithHtml(page, ruleId, node) ==
    LET cleanPage == BeforeHash(StripTrailingSlash(page))
        selector == IF node.target.isArray
                    THEN Join(node.target.items, SelectorSep)
                    ELSE node.target.str
    IN  cleanPage \o <<"|">> \o ruleId \o <<"|">> \o selector \o <<"|">> \o node.html

getOccurrenceKey(page, ruleId, node) ==
    LET cleanPage == BeforeHash(StripTrailingSlash(page))
        selector == IF node.target.isArray
                    THEN Join(node.target.items, SelectorSep)
                    ELSE node.target.str
    IN  cleanPage \o <<"|">> \o ruleId \o <<"|">> \o selector

Range(s) == {s[i] : i \in 1..Len(s)}

\* the page form used for prevPagesByRule / currentPages / isNewPage
PageOf(o) == StripTrailingSlash(o.page)

\* rule.occurrences.map(o => getOccurrenceKey(o.page, rule.id, o))
KeysOf(rule) ==
    [i \in 1..Len(rule.occurrences) |->
        getOccurrenceKey(rule.occurrences[i].page, rule.id, rule.occurrences[i])]

PagesOf(rule) == {PageOf(rule.occurrences[i]) : i \in 1..Len(rule.occurrences)}

IsNull(x) == "isNull" \in DOMAIN x

\* prevAudit.rules.forEach(...): the index entries of an id are those of the LAST
\* previous rule carrying it (each rule overwrites the entry of its id)
prevRuleIds(prevAudit) ==
    IF IsNull(prevAudit) THEN {} ELSE {prevAudit.rules[i].id : i \in 1..Len(prevAudit.rules)}

PrevRuleOf(prevAudit, id) ==
    LET idx == {i \in 1..Len(prevAudit.rules) : prevAudit.rules[i].id = id}
    IN  prevAudit.rules[CHOOSE i \in idx : \A j \in idx : j <= i]

\* prevOccurrencesByRule[rule.id] || new Set()
prevOccurrencesByRule(prevAudit, id) ==
    IF id \in prevRuleIds(prevAudit) THEN Range(KeysOf(PrevRuleOf(prevAudit, id))) ELSE {}

\* faulty variant: the previous pages are indexed as written, trailing slash included
prevPagesByRuleRaw(prevAudit, id) ==
    LET r == PrevRuleOf(prevAudit, id)
    IN  {r.occurrences[i].page : i \in 1..Len(r.occurrences)}

\* prevPagesByRule[rule.id] (only read when the id was indexed)
prevPagesByRule(prevAudit, id) == PagesOf(PrevRuleOf(prevAudit, id))

\* faulty variant: the first-run special case is missing, the absent baseline counts as empty
DiffCountsNoBaseline(rule, prevAudit) ==
    LET currentKeys == KeysOf(rule)
        prevSet == prevOccurrencesByRule(prevAudit, rule.id)
    IN  [new |-> Cardinality(Range(currentKeys) \ prevSet),
         resolved |-> Cardinality(prevSet \ Range(currentKeys)),
         unchanged |-> Cardinality(Range(currentKeys) \cap prevSet)]

\* faulty variant: every current occurrence counts as new, whatever the baseline holds
DiffCountsAllNew(rule, prevAudit) ==
    LET currentKeys == KeysOf(rule)
        prevSet == prevOccurrencesByRule(prevAudit, rule.id)
    IN  [new |-> IF IsNull(prevAudit) THEN 0 ELSE Cardinality(Range(currentKeys)),
         resolved |-> IF IsNull(prevAudit) THEN 0 ELSE Cardinality(prevSet \ Range(currentKeys)),
         unchanged |-> IF IsNull(prevAudit) THEN Len(currentKeys)
                       ELSE Cardinality(Range(currentKeys) \cap prevSet)]

\* newCount / resolvedCount / unchangedCount of one rule (lines 58-65)
DiffCounts(rule, prevAudit) ==
    LET currentKeys == KeysOf(rule)
        prevSet == prevOccurrencesByRule(prevAudit, rule.id)
    IN  [new |-> IF IsNull(prevAudit) THEN 0
                 ELSE Cardinality(Range(currentKeys) \ prevSet),
         resolved |-> IF IsNull(prevAudit) THEN 0
                      ELSE Cardinality(prevSet \ Range(currentKeys)),
         unchanged |-> IF IsNull(prevAudit) THEN Len(currentKeys)
                       ELSE Cardinality(Range(currentKeys) \cap prevSet)]

\* faulty variant: a rule absent from the previous snapshot spreads to all its pages
NewPagesOfAbsentAsAll(rule, prevAudit) ==
    IF IsNull(prevAudit) THEN {}
    ELSE IF rule.id \in prevRuleIds(prevAudit)
         THEN PagesOf(rule) \ prevPagesByRule(prevAudit, rule.id)
         ELSE PagesOf(rule)

\* rule.diff.newPages (lines 71, 77-81)
NewPagesOf(rule, prevAudit) ==
    IF ~IsNull(prevAudit) /\ rule.id \in prevRuleIds(prevAudit)
    THEN PagesOf(rule) \ prevPagesByRule(prevAudit, rule.id)
    ELSE {}

\* faulty variant: the occurrences are left as they were, without their flags
AnnotateRuleKeepsOccurrences(rule, prevAudit) ==
    LET counts == DiffCounts(rule, prevAudit)
    IN  ("diff" :> [new |-> counts.new, resolved |-> counts.resolved,
                    unchanged |-> counts.unchanged,
                    newPages |-> NewPagesOf(rule, prevAudit)]
         @@ "isNewRule" :> (IF IsNull(prevAudit) THEN FALSE
                            ELSE rule.id \notin prevRuleIds(prevAudit))
         @@ rule)

\* the body of rules.forEach: the fields diffRules assigns to one rule object
AnnotateRule(rule, prevAudit) ==
    LET currentKeys == KeysOf(rule)
        prevSet == prevOccurrencesByRule(prevAudit, rule.id)
        counts == DiffCounts(rule, prevAudit)
        newPages == NewPagesOf(rule, prevAudit)
        occ(i) ==
            LET o == rule.occurrences[i]
            IN  ("isNewOccurrence" :> (IF IsNull(prevAudit) THEN FALSE
                                       ELSE currentKeys[i] \notin prevSet)
                 @@ "isNewPage" :> (IF IsNull(prevAudit) THEN FALSE
                                    ELSE PageOf(o) \in newPages)
                 @@ o)
    IN  ("diff" :> [new |-> counts.new, resolved |-> counts.resolved,
                    unchanged |-> counts.unchanged, newPages |-> newPages]
         @@ "isNewRule" :> (IF IsNull(prevAudit) THEN FALSE
                            ELSE rule.id \notin prevRuleIds(prevAudit))
         @@ "occurrences" :> [i \in 1..Len(rule.occurrences) |-> occ(i)]
         @@ rule)

RECURSIVE SumTotalsLastUnchanged(_, _)
\* faulty variant: diffTotals.unchanged is assigned, not accumulated
SumTotalsLastUnchanged(rs, prevAudit) ==
    IF Len(rs) = 0 THEN [newViolations |-> 0, resolvedViolations |-> 0, unchanged |-> 0]
    ELSE LET c == DiffCounts(rs[Len(rs)], prevAudit)
             t == SumTotalsLastUnchanged(SubSeq(rs, 1, Len(rs) - 1), prevAudit)
         IN  [newViolations |-> t.newViolations + c.new,
              resolvedViolations |-> t.resolvedViolations + c.resolved,
              unchanged |-> c.unchanged]

RECURSIVE SumTotals(_, _)
\* diffTotals accumulated over rules.forEach (lines 41, 96-98)
SumTotals(rs, prevAudit) ==
    IF Len(rs) = 0 THEN [newViolations |-> 0, resolvedViolations |-> 0, unchanged |-> 0]
    ELSE LET c == DiffCounts(rs[Len(rs)], prevAudit)
             t == SumTotals(SubSeq(rs, 1, Len(rs) - 1), prevAudit)
         IN  [newViolations |-> t.newViolations + c.new,
              resolvedViolations |-> t.resolvedViolations + c.resolved,
              unchanged |-> t.unchanged + c.unchanged]

RECURSIVE SelectSeq2(_, _)
\* prevAudit.rules filtered to the ids absent from the current rule set, in order
SelectSeq2(s, keep) ==
    IF Len(s) = 0 THEN <<>>
    ELSE IF s[1].id \in keep THEN <<s[1]>> \o SelectSeq2(Tail(s), keep)
    ELSE SelectSeq2(Tail(s), keep)

\* friendlyNames[prevRule.id] || prevRule.id
FriendlyName(friendlyNames, id) ==
    IF id \in DOMAIN friendlyNames THEN friendlyNames[id] ELSE id

\* faulty variant: every previous rule is listed, still present or not
FullyResolvedAll(rs, prevAudit, friendlyNames) ==
    IF IsNull(prevAudit) THEN <<>>
    ELSE [i \in 1..Len(prevAudit.rules) |->
            [id |-> prevAudit.rules[i].id,
             friendlyName |-> FriendlyName(friendlyNames, prevAudit.rules[i].id),
             impact |-> prevAudit.rules[i].impact]]

\* fullyResolvedRules (lines 101-114)
FullyResolved(rs, prevAudit, friendlyNames) ==
    IF IsNull(prevAudit) THEN <<>>
    ELSE LET currentRuleIds == {rs[i].id : i \in 1..Len(rs)}
             gone == SelectSeq2(prevAudit.rules, prevRuleIds(prevAudit) \ currentRuleIds)
         IN  [i \in 1..Len(gone) |->
                [id |-> gone[i].id,
                 friendlyName |-> FriendlyName(friendlyNames, gone[i].id),
                 impact |-> gone[i].impact]]

\* diffRules once prevAudit is loaded: `rules` is the input array after the call
\* (its rule objects carry the assigned fields), the other two are returned values
DiffAgainst(rs, prevAudit, friendlyNames) ==
    [rules |-> [i \in 1..Len(rs) |-> AnnotateRule(rs[i], prevAudit)],
     diffTotals |-> SumTotals(rs, prevAudit),
     fullyResolvedRules |-> FullyResolved(rs, prevAudit, friendlyNames)]

----------------------------------------------------------------------------
(* The results directory and the snapshot files in it *)

LatestFile(slug) == [kind |-> "latest", slug |-> slug]
AuditFile(slug, ts) == [kind |-> "audit", slug |-> slug, ts |-> ts]
NamedFile(name) == [kind |-> "named", name |-> name]

\* JSON.stringify of a rule: a Set has no enumerable properties and is written
\* as {}, a NaN is written as null
RuleToJson(rule) ==
    LET written == IF "diff" \in DOMAIN rule
                   THEN ("diff" :> [new |-> rule.diff.new, resolved |-> rule.diff.resolved,
                                    unchanged |-> rule.diff.unchanged, newPages |-> {}]
                         @@ rule)
                   ELSE rule
    IN  IF "priorityScore" \in DOMAIN written /\ written.priorityScore.isNaN
        THEN ("priorityScore" :> Null) @@ written
        ELSE written

\* JSON.stringify(data, null, 2) as written by writeAuditJson
ToJson(data) ==
    [kind |-> "json",
     data |-> ("rules" :> [i \in 1..Len(data.rules) |-> RuleToJson(data.rules[i])] @@ data)]

\* a file that is not JSON text, and a path that exists but cannot be read as a file
GarbageFile == [kind |-> "garbage"]
UnreadableFile == [kind |-> "unreadable"]

\* fs.existsSync + JSON.parse(fs.readFileSync(...)) of diffRules (lines 33-39):
\* what readFileSync or JSON.parse throws is caught and prevAudit stays null
LoadPrevAudit(fs, name) ==
    IF name \notin DOMAIN fs \/ fs[name].kind = "absent" THEN Null
    ELSE IF fs[name].kind \in {"garbage", "unreadable"} THEN Null
    ELSE fs[name].data

\* rules[0]?.siteSlug || 'unknown'
SiteSlugOfRules(rs) ==
    IF Len(rs) > 0 /\ "siteSlug" \in DOMAIN rs[1] THEN rs[1].siteSlug ELSE "unknown"

\* prevJsonFile (lines 26-31); prevAuditFileName = Null stands for the default null
PrevJsonFile(rs, prevAuditFileName) ==
    IF IsNull(prevAuditFileName) THEN LatestFile(SiteSlugOfRules(rs))
    ELSE prevAuditFileName

\* the TypeError that leaves diffRules
TypeError == [threw |-> "TypeError"]
Threw(r) == "threw" \in DOMAIN r

\* prevAudit.rules.forEach and rule.occurrences.map (lines 47-54) are outside the
\* try: they throw when the parsed value has no rules or a rule no occurrences
IndexingThrows(prevAudit) ==
    /\ ~IsNull(prevAudit)
    /\ \/ "rules" \notin DOMAIN prevAudit
       \/ \E i \in 1..Len(prevAudit.rules) : "occurrences" \notin DOMAIN prevAudit.rules[i]

\* export function diffRules(rules, resultsDir, friendlyNames, prevAuditFileName)
diffRules(rs, fs, friendlyNames, prevAuditFileName) ==
    LET prevAudit == LoadPrevAudit(fs, PrevJsonFile(rs, prevAuditFileName))
    IN  IF IndexingThrows(prevAudit) THEN TypeError
        ELSE DiffAgainst(rs, prevAudit, friendlyNames)

----------------------------------------------------------------------------
(* SpecKey: getOccurrenceKey applied to the spellings of one page and selector *)

KeyBasePages == { <<"site">>, <<"site", "/", "about">>, <<"site", "/", "a", "/", "b">> }
KeyFragments == { <<"top">>, <<"team">> }
KeyRuleIds == { <<"image-alt">>, <<"label">> }
KeySegments == { <<"html">>, <<"div">>, <<".nav">> }

RECURSIVE SeqsOfLen(_, _)
SeqsOfLen(S, n) ==
    IF n = 0 THEN { <<>> }
    ELSE { <<x>> \o t : x \in S, t \in SeqsOfLen(S, n - 1) }

SeqsUpTo(S, n) == UNION { SeqsOfLen(S, k) : k \in 0..n }

KeyInputs ==
    [page : KeyBasePages, fragment : KeyFragments, ruleId : KeyRuleIds,
     segs : SeqsUpTo(KeySegments, MaxSegs) \ { <<>> }]


InitKey ==
    /\ NoProcess
    /\ kin \in KeyInputs
    /\ kout = Idle
    /\ files = <<>> /\ pc = "key" /\ run = Idle /\ rules = <<>>
    /\ ret = <<>> /\ calls = 0 /\ runNo = 0 /\ given = <<>>

\* the keys of one element: its page spelled four ways, its selector in both forms
ComputeKeys ==
    /\ pc = "key" /\ kout = Idle
    /\ LET node == [html |-> <<"<div>">>, target |-> ArrayTarget(kin.segs)]
           stored == [html |-> node.html, target |-> JoinTarget(node.target)]
           frag == <<"#">> \o kin.fragment
       IN  kout' = [plain |-> getOccurrenceKey(kin.page, kin.ruleId, node),
                    slash |-> getOccurrenceKey(kin.page \o <<"/">>, kin.ruleId, node),
                    frag |-> getOccurrenceKey(kin.page \o frag, kin.ruleId, node),
                    slashFrag |-> getOccurrenceKey(kin.page \o <<"/">> \o frag,
                                                   kin.ruleId, node),
                    stored |-> getOccurrenceKey(kin.page, kin.ruleId, stored)]
    /\ UNCHANGED <<procVars, files, pc, run, rules, ret, calls, runNo, given, kin>>

NextKey == ComputeKeys

SpecKey == InitKey /\ [][NextKey]_vars

\* C8: the keys built from p, p/, p#fragment and p/#fragment are all equal
C8_KeyIgnoresSlashAndFragment ==
    (pc = "key" /\ kout # Idle) =>
        /\ kout.slash = kout.plain
        /\ kout.frag = kout.plain
        /\ kout.slashFrag = kout.plain

\* C9: the key of a selector given as a list of segments equals the key of the
\* pre-joined string aggregateRules stores for it
C9_KeySameForListAndJoined ==
    (pc = "key" /\ kout # Idle) => kout.stored = kout.plain

C9_Witness == pc = "key" /\ kout # Idle /\ Len(kin.segs) >= 2

----------------------------------------------------------------------------
(* SpecDiff: diffRules called as tests/test-diffs.js calls it, on a rule list *)
(* and a previous snapshot file named explicitly                            *)

ImageAlt == <<"image-alt">>
Label == <<"label">>
DiffRuleIds == { ImageAlt, Label }

ImpactOf(id) == IF id = ImageAlt THEN "critical" ELSE "minor"

P1 == <<"site", "/", "p1">>
P2 == <<"site", "/", "p2">>

\* one matched element of one rule: (rule id, page, stored selector path)
DiffAtoms ==
    { [id |-> ImageAlt, page |-> P1, target |-> StringTarget(<<"img.a">>)],
      [id |-> ImageAlt, page |-> P1, target |-> StringTarget(<<"img.b">>)],
      [id |-> ImageAlt, page |-> P1 \o <<"/">>, target |-> StringTarget(<<"img.a">>)],
      [id |-> ImageAlt, page |-> P1 \o <<"#", "top">>, target |-> StringTarget(<<"img.a">>)],
      [id |-> ImageAlt, page |-> P2, target |-> StringTarget(<<"img.a">>)],
      [id |-> Label, page |-> P2, target |-> StringTarget(<<"input">>)] }

\* two captures of the same element that differ in whitespace only
Html1 == <<"<img>">>
Html2 == <<"<img >">>

RECURSIVE OccurrencesOfId(_, _, _)
OccurrencesOfId(atoms, id, html) ==
    IF Len(atoms) = 0 THEN <<>>
    ELSE (IF atoms[1].id = id
          THEN << [page |-> atoms[1].page, html |-> html, target |-> atoms[1].target] >>
          ELSE <<>>) \o OccurrencesOfId(Tail(atoms), id, html)

RECURSIVE IdsInOrder(_, _)
IdsInOrder(atoms, seen) ==
    IF Len(atoms) = 0 THEN <<>>
    ELSE IF atoms[1].id \in seen THEN IdsInOrder(Tail(atoms), seen)
    ELSE <<atoms[1].id>> \o IdsInOrder(Tail(atoms), seen \cup {atoms[1].id})

\* the rule list holding these elements: one rule per id, in order of first appearance
RuleList(atoms, html) ==
    LET ids == IdsInOrder(atoms, {})
    IN  [i \in 1..Len(ids) |->
            [id |-> ids[i], impact |-> ImpactOf(ids[i]),
             occurrences |-> OccurrencesOfId(atoms, ids[i], html)]]

OldJson == NamedFile("old.json")

InitDiff ==
    /\ NoProcess
    /\ \E cur \in SeqsUpTo(DiffAtoms, MaxCurOcc), html \in {Html1, Html2} :
          /\ rules = RuleList(cur, html)
          /\ given = RuleList(cur, html)
    /\ \/ files = (OldJson :> NoFile)
       \/ \E prev \in SeqsUpTo(DiffAtoms, MaxPrevOcc) :
             files = (OldJson :> ToJson([rules |-> RuleList(prev, Html1)]))
    /\ pc = "diff" /\ calls = 0 /\ ret = <<>>
    /\ run = Idle /\ runNo = 0 /\ kin = Idle /\ kout = Idle

\* diffRules(rules, './tests/fixtures', {}, 'old.json'): the rule objects of the
\* caller's array are assigned to in place, and the array itself is returned
CallDiff ==
    /\ pc = "diff" /\ calls < 2
    /\ LET r == diffRules(rules, files, <<>>, OldJson)
       IN  /\ rules' = r.rules
           /\ ret' = Append(ret, r)
    /\ calls' = calls + 1
    /\ UNCHANGED <<procVars, files, pc, run, runNo, given, kin, kout>>

NextDiff == CallDiff

SpecDiff == InitDiff /\ [][NextDiff]_vars

----------------------------------------------------------------------------
(* Properties of diffRules (SpecDiff) *)

Called == pc = "diff" /\ calls >= 1
HasPrevFile == pc = "diff" /\ files[OldJson].kind = "json"
PrevRules == files[OldJson].data.rules

OccKeySet(rule) ==
    { getOccurrenceKey(rule.occurrences[i].page, rule.id, rule.occurrences[i]) :
        i \in 1..Len(rule.occurrences) }

\* the occurrence keys the previous snapshot holds for a rule id
PrevKeySet(id) ==
    UNION { OccKeySet(PrevRules[j]) : j \in {k \in 1..Len(PrevRules) : PrevRules[k].id = id} }

\* the pages (trailing slash removed) the previous snapshot holds for a rule id
PrevPageSet(id) ==
    UNION { {StripTrailingSlash(PrevRules[j].occurrences[n].page) :
                n \in 1..Len(PrevRules[j].occurrences)} :
            j \in {k \in 1..Len(PrevRules) : PrevRules[k].id = id} }

CurPageSet(rule) ==
    {StripTrailingSlash(rule.occurrences[n].page) : n \in 1..Len(rule.occurrences)}

PrevIds == {PrevRules[j].id : j \in 1..Len(PrevRules)}

\* C2: with a previous snapshot, each rule's diff.new, diff.resolved and
\* diff.unchanged are |current - prev|, |prev - current| and |current \cap prev|
\* over the occurrence keys of its rule id
C2_DiffCountsAreSetDifferences ==
    (Called /\ HasPrevFile) =>
        \A i \in 1..Len(rules) :
            LET cur == OccKeySet(given[i])
                prev == PrevKeySet(given[i].id)
            IN  /\ rules[i].diff.new = Cardinality(cur \ prev)
                /\ rules[i].diff.resolved = Cardinality(prev \ cur)
                /\ rules[i].diff.unchanged = Cardinality(cur \cap prev)

\* one occurrence kept, one gone, one on another page (the spec's example)
C2_Witness ==
    /\ Called /\ HasPrevFile
    /\ \E i \in 1..Len(rules) :
          /\ rules[i].diff.new = 1 /\ rules[i].diff.resolved = 1
          /\ rules[i].diff.unchanged = 1
          /\ rules[i].diff.newPages = {P2}

RECURSIVE SumDiff(_, _)
SumDiff(rs, field) ==
    IF Len(rs) = 0 THEN 0 ELSE rs[1].diff[field] + SumDiff(Tail(rs), field)

\* C3: diffTotals equals the sums of the rules' diff.new, diff.resolved and
\* diff.unchanged, with or without a previous snapshot
C3_TotalsAreSums ==
    Called =>
        LET t == ret[calls].diffTotals
        IN  /\ t.newViolations = SumDiff(rules, "new")
            /\ t.resolvedViolations = SumDiff(rules, "resolved")
            /\ t.unchanged = SumDiff(rules, "unchanged")

C3_Witness ==
    /\ Called /\ Len(rules) = 2
    /\ ret[calls].diffTotals.unchanged = 2
    /\ \A i \in 1..2 : rules[i].diff.unchanged = 1

NoFlags(rule) ==
    \A n \in 1..Len(rule.occurrences) :
        /\ ~rule.occurrences[n].isNewOccurrence
        /\ ~rule.occurrences[n].isNewPage

\* C4: without a previous snapshot file nothing is new or resolved, every
\* occurrence is unchanged, no flag is set and no rule is fully resolved
C4_FirstRunIsBaseline ==
    (Called /\ ~HasPrevFile) =>
        /\ \A i \in 1..Len(rules) :
              /\ rules[i].isNewRule = FALSE
              /\ rules[i].diff.new = 0 /\ rules[i].diff.resolved = 0
              /\ rules[i].diff.unchanged = Len(given[i].occurrences)
              /\ NoFlags(rules[i])
        /\ ret[calls].diffTotals.newViolations = 0
        /\ ret[calls].fullyResolvedRules = <<>>

C4_Witness ==
    /\ Called /\ ~HasPrevFile /\ Len(rules) = 2
    /\ rules[1].diff.unchanged = 1

\* C5: when the current rules and occurrences are those of the previous
\* snapshot, nothing is new, resolved or flagged, and a second call returns
\* what the first returned
C5_IdenticalSnapshotsDiffEmpty ==
    (Called /\ HasPrevFile /\ given = PrevRules) =>
        /\ \A i \in 1..Len(rules) :
              /\ rules[i].diff.new = 0 /\ rules[i].diff.resolved = 0
              /\ rules[i].isNewRule = FALSE
              /\ NoFlags(rules[i])
        /\ ret[calls].fullyResolvedRules = <<>>
        /\ calls = 2 => ret[2] = ret[1]

C5_Witness ==
    /\ Called /\ HasPrevFile /\ given = PrevRules /\ calls = 2
    /\ Len(rules) = 2

\* C6 as stated: the previous page set of a rule absent from the previous
\* snapshot counts as empty
C6_NewPagesWithEmptyPrevForNewRule ==
    (Called /\ HasPrevFile) =>
        \A i \in 1..Len(rules) :
            /\ rules[i].diff.newPages = CurPageSet(given[i]) \ PrevPageSet(given[i].id)
            /\ \A n \in 1..Len(rules[i].occurrences) :
                  rules[i].occurrences[n].isNewPage
                    <=> StripTrailingSlash(rules[i].occurrences[n].page)
                            \in rules[i].diff.newPages

\* C6 amended: newPages is the current pages absent from the previous page set
\* for a rule the previous snapshot holds, and empty for a rule it does not
\* hold; isNewPage iff the occurrence's page is in newPages
C6_NewPagesOnlyForKnownRules ==
    (Called /\ HasPrevFile) =>
        \A i \in 1..Len(rules) :
            /\ rules[i].diff.newPages =
                  IF given[i].id \in PrevIds
                  THEN CurPageSet(given[i]) \ PrevPageSet(given[i].id)
                  ELSE {}
            /\ \A n \in 1..Len(rules[i].occurrences) :
                  rules[i].occurrences[n].isNewPage
                    <=> StripTrailingSlash(rules[i].occurrences[n].page)
                            \in rules[i].diff.newPages

C6_Witness ==
    /\ Called /\ HasPrevFile
    /\ \E i \in 1..Len(rules) :
          /\ rules[i].isNewRule /\ rules[i].diff.newPages = {}
    /\ \E i \in 1..Len(rules) :
          /\ ~rules[i].isNewRule /\ rules[i].diff.newPages = {P2}

RECURSIVE Offset(_, _)
\* number of occurrences in the rules before rule i
Offset(rs, i) == IF i <= 1 THEN 0 ELSE Len(rs[i - 1].occurrences) + Offset(rs, i - 1)

TotalOcc(rs) == Offset(rs, Len(rs) + 1)

\* the rule list with its html snippets replaced, occurrence by occurrence
WithHtml(rs, h) ==
    [i \in 1..Len(rs) |->
        [rs[i] EXCEPT !.occurrences =
            [n \in 1..Len(rs[i].occurrences) |->
                [rs[i].occurrences[n] EXCEPT !.html = h[Offset(rs, i) + n]]]]]

\* a result of diffRules without the html snippets
Classification(r) ==
    [rules |-> [i \in 1..Len(r.rules) |->
                  [id |-> r.rules[i].id, diff |-> r.rules[i].diff,
                   isNewRule |-> r.rules[i].isNewRule,
                   occurrences |->
                      [n \in 1..Len(r.rules[i].occurrences) |->
                          LET o == r.rules[i].occurrences[n]
                          IN  [page |-> o.page, target |-> o.target,
                               isNewOccurrence |-> o.isNewOccurrence,
                               isNewPage |-> o.isNewPage]]]],
     diffTotals |-> r.diffTotals,
     fullyResolvedRules |-> r.fullyResolvedRules]

\* C7: rule lists that differ only in their html snippets get the same counts,
\* newPages, flags and totals against the same previous snapshot
C7_HtmlDoesNotMatter ==
    Called =>
        \A h \in [1..TotalOcc(given) -> {Html1, Html2}] :
            Classification(diffRules(WithHtml(given, h), files, <<>>, OldJson))
                = Classification(ret[1])

\* an occurrence captured as Html2 whose baseline copy was captured as Html1
C7_Witness ==
    /\ Called /\ HasPrevFile
    /\ \E i \in 1..Len(rules) : \E n \in 1..Len(rules[i].occurrences) :
          /\ rules[i].occurrences[n].html = Html2
          /\ ~rules[i].occurrences[n].isNewOccurrence
          /\ rules[i].diff.unchanged >= 1

Unannotated(rule) ==
    [id |-> rule.id, impact |-> rule.impact,
     occurrences |-> [n \in 1..Len(rule.occurrences) |->
                        [page |-> rule.occurrences[n].page,
                         html |-> rule.occurrences[n].html,
                         target |-> rule.occurrences[n].target]]]

CurIds == {rules[i].id : i \in 1..Len(rules)}

\* C21: with a previous snapshot, a current rule has isNewRule iff its id is
\* absent from the previous snapshot's rules; fullyResolvedRules lists exactly
\* the previous ids absent from the current rule set, each once and with its
\* prior impact; no id is both a current rule and fully resolved
C21_RuleIdsClassifiedAgainstPrevious ==
    (Called /\ HasPrevFile) =>
        LET fr == ret[calls].fullyResolvedRules
            frIds == {fr[k].id : k \in 1..Len(fr)}
        IN  /\ \A i \in 1..Len(rules) : rules[i].isNewRule <=> rules[i].id \notin PrevIds
            /\ frIds = PrevIds \ CurIds
            /\ Len(fr) = Cardinality(frIds)
            /\ \A k \in 1..Len(fr) : \E j \in 1..Len(PrevRules) :
                  PrevRules[j].id = fr[k].id /\ PrevRules[j].impact = fr[k].impact
            /\ frIds \cap CurIds = {}

\* one rule appeared, one was fixed entirely, one is in both snapshots or not
C21_Witness ==
    /\ Called /\ HasPrevFile
    /\ \E i \in 1..Len(rules) : rules[i].isNewRule
    /\ Len(ret[calls].fullyResolvedRules) = 1
    /\ ret[calls].fullyResolvedRules[1].impact = "critical"

\* C27: diffTotals.resolvedViolations is the number of occurrence keys of the
\* previous snapshot that are absent from the current rule set, counted over
\* all previous rules, those of fully resolved rules included
C27_ResolvedCountsFullyResolvedRules ==
    (Called /\ HasPrevFile) =>
        LET prevKeys == UNION { PrevKeySet(id) : id \in PrevIds }
            curKeys == UNION { OccKeySet(given[i]) : i \in 1..Len(given) }
        IN  ret[calls].diffTotals.resolvedViolations = Cardinality(prevKeys \ curKeys)

\* C28: with or without a previous snapshot, a rule's diff.new + diff.unchanged
\* is the number of its current occurrences, and diff.new is the number of its
\* occurrences flagged isNewOccurrence
C28_CountsMatchOccurrences ==
    Called =>
        \A i \in 1..Len(rules) :
            /\ rules[i].diff.new + rules[i].diff.unchanged = Len(rules[i].occurrences)
            /\ rules[i].diff.new =
                  Cardinality({n \in 1..Len(rules[i].occurrences) :
                                  rules[i].occurrences[n].isNewOccurrence})

\* C29: an occurrence flagged isNewPage is flagged isNewOccurrence, and a rule
\* with a non-empty newPages set has diff.new > 0
C29_NewPageImpliesNewOccurrence ==
    Called =>
        \A i \in 1..Len(rules) :
            /\ \A n \in 1..Len(rules[i].occurrences) :
                  rules[i].occurrences[n].isNewPage => rules[i].occurrences[n].isNewOccurrence
            /\ rules[i].diff.newPages # {} => rules[i].diff.new > 0

----------------------------------------------------------------------------
(* lib/aggregate/aggregateRules.js, lib/utils.js, lib/enrich/enrichRules.js *)

\* an html snippet is a sequence of tokens; these are the tokens that are tags
TagTokens == { "<img>", "<img >", "<div>", "<input>" }

\* stripChildren(html): the outermost opening tag, or the text as it is
stripChildren(html) ==
    IF Len(html) = 0 THEN <<>>
    ELSE IF html[1] \in TagTokens THEN <<html[1]>>
    ELSE html

RECURSIVE FlatViolations(_)
\* the (page, violation) pairs in the order the two nested forEach visit them
FlatViolations(rawResults) ==
    IF Len(rawResults) = 0 THEN <<>>
    ELSE [k \in 1..Len(rawResults[1].violations) |->
            [page |-> rawResults[1].url, v |-> rawResults[1].violations[k]]]
         \o FlatViolations(Tail(rawResults))

RECURSIVE FirstIds(_, _)
\* the keys of rulesMap in insertion order
FirstIds(fv, seen) ==
    IF Len(fv) = 0 THEN <<>>
    ELSE IF fv[1].v.id \in seen THEN FirstIds(Tail(fv), seen)
    ELSE <<fv[1].v.id>> \o FirstIds(Tail(fv), seen \cup {fv[1].v.id})

RECURSIVE OccurrencesFor(_, _)
\* faulty variant: only the first matched element of a violation is recorded
OccurrencesForFirstNode(fv, id) ==
    IF Len(fv) = 0 THEN <<>>
    ELSE (IF fv[1].v.id = id
          THEN [n \in 1..Min({1, Len(fv[1].v.nodes)}) |->
                  [page |-> fv[1].page,
                   html |-> stripChildren(fv[1].v.nodes[n].html),
                   target |-> JoinTarget(fv[1].v.nodes[n].target)]]
          ELSE <<>>) \o OccurrencesFor(Tail(fv), id)

\* entry.occurrences: one per node of every violation of the rule (lines 33-40)
OccurrencesFor(fv, id) ==
    IF Len(fv) = 0 THEN <<>>
    ELSE (IF fv[1].v.id = id
          THEN [n \in 1..Len(fv[1].v.nodes) |->
                  [page |-> fv[1].page,
                   html |-> stripChildren(fv[1].v.nodes[n].html),
                   target |-> JoinTarget(fv[1].v.nodes[n].target)]]
          ELSE <<>>) \o OccurrencesFor(Tail(fv), id)

\* IMPACT_ORDER[impact] ?? 99
ImpactRank(impact) ==
    CASE impact = "critical" -> 0
      [] impact = "serious" -> 1
      [] impact = "moderate" -> 2
      [] impact = "minor" -> 3
      [] OTHER -> 99

\* faulty variant: the comparator without its systemic tie-break
CompareRulesNoSystemic(a, b) ==
    IF ImpactRank(a.impact) # ImpactRank(b.impact)
    THEN ImpactRank(a.impact) - ImpactRank(b.impact)
    ELSE Len(b.occurrences) - Len(a.occurrences)

\* the comparator of allRules.sort (lines 64-75): negative when a goes first
CompareRules(a, b) ==
    IF ImpactRank(a.impact) # ImpactRank(b.impact)
    THEN ImpactRank(a.impact) - ImpactRank(b.impact)
    ELSE IF a.isSystemic # b.isSystemic THEN (IF a.isSystemic THEN -1 ELSE 1)
    ELSE Len(b.occurrences) - Len(a.occurrences)

RECURSIVE InsertRule(_, _)
\* x placed behind every element that does not sort after it (the sort is stable)
InsertRule(sorted, x) ==
    IF Len(sorted) = 0 THEN <<x>>
    ELSE IF CompareRules(sorted[Len(sorted)], x) <= 0 THEN Append(sorted, x)
    ELSE Append(InsertRule(SubSeq(sorted, 1, Len(sorted) - 1), x), sorted[Len(sorted)])

RECURSIVE SortRules(_)
SortRules(rs) ==
    IF Len(rs) = 0 THEN <<>>
    ELSE InsertRule(SortRules(SubSeq(rs, 1, Len(rs) - 1)), rs[Len(rs)])

\* faulty variant: a single audited page counts as the whole site
IsSystemicOnOnePage(pagesAffectedCount, totalPagesCount) ==
    pagesAffectedCount = totalPagesCount

\* line 52: on every page of an audit of more than one page
IsSystemic(pagesAffectedCount, totalPagesCount) ==
    totalPagesCount > 1 /\ pagesAffectedCount = totalPagesCount

\* aggregateRules(rawResults, { stripChildren }).rules
aggregateRules(rawResults) ==
    LET fv == FlatViolations(rawResults)
        ids == FirstIds(fv, {})
        totalPagesCount == Len(rawResults)
        first(id) == fv[Min({k \in 1..Len(fv) : fv[k].v.id = id})].v
        uniquePages(id) == {fv[k].page : k \in {j \in 1..Len(fv) : fv[j].v.id = id}}
        entry(id) ==
            [id |-> id, impact |-> first(id).impact,
             occurrences |-> OccurrencesFor(fv, id),
             pagesAffected |-> Cardinality(uniquePages(id)),
             isSystemic |-> IsSystemic(Cardinality(uniquePages(id)), totalPagesCount)]
    IN  SortRules([i \in 1..Len(ids) |-> entry(ids[i])])

\* faulty variant: the quotient is rounded without the test of its denominator
RoundPercentUnguarded(part, whole) ==
    IF whole = 0 THEN NaN ELSE Number((200 * part + whole) \div (2 * whole))

\* whole > 0 ? Math.round((part / whole) * 100) : 0, halves rounded up (the
\* quotients of the model are small enough to be exact as doubles)
RoundPercent(part, whole) ==
    IF whole > 0 THEN Number((200 * part + whole) \div (2 * whole)) ELSE Number(0)

\* aggregateRules(rawResults, { stripChildren }).summary (lines 77-98)
aggregateSummary(rawResults) ==
    LET fv == FlatViolations(rawResults)
        allRules == aggregateRules(rawResults)
        topRules == SubSeq(allRules, 1, Min({5, Len(allRules)}))
        totalOccurrencesCount == SumSeq([k \in 1..Len(fv) |-> Len(fv[k].v.nodes)])
        priorityOccurrencesCount ==
            SumSeq([i \in 1..Len(topRules) |-> Len(topRules[i].occurrences)])
        priorityPagesSet ==
            {fv[k].page : k \in {j \in 1..Len(fv) :
                                    \E i \in 1..Len(topRules) : fv[j].v.id = topRules[i].id}}
    IN  [topRulesNames |-> [i \in 1..Len(topRules) |-> topRules[i].id],
         violationPercentage |-> RoundPercent(priorityOccurrencesCount, totalOccurrencesCount),
         pagePercentage |-> RoundPercent(Cardinality(priorityPagesSet), Len(rawResults))]

\* enrichRules: the fields added do not depend on the diff; displayName is kept
enrichRules(rs) == [i \in 1..Len(rs) |-> ("displayName" :> rs[i].id @@ rs[i])]

----------------------------------------------------------------------------
(* scripts/process-results.js: one run of the processing script *)

\* const IMPACT_WEIGHTS = { critical: 10000, serious: 1000, moderate: 100, minor: 10 }
PriorityWeights == [critical |-> 10000, serious |-> 1000, moderate |-> 100, minor |-> 10]

\* IMPACT_WEIGHTS[rule.impact] + uniquePages: undefined + n is NaN
PriorityScore(impact, uniquePages) ==
    IF impact \in DOMAIN PriorityWeights
    THEN Number(PriorityWeights[impact] + uniquePages)
    ELSE NaN

\* the map of the priority step: every rule object gets priorityScore, and its
\* pagesAffected is overwritten with the number of distinct occurrence pages
ScoreRules(rs) ==
    [i \in 1..Len(rs) |->
        LET uniquePages ==
                Cardinality({rs[i].occurrences[n].page : n \in 1..Len(rs[i].occurrences)})
        IN  ("priorityScore" :> PriorityScore(rs[i].impact, uniquePages)
             @@ "pagesAffected" :> uniquePages
             @@ rs[i])]

\* .slice(0, 5) of the priority list
TopN == 5

RECURSIVE InsertByScore(_, _)
\* x placed behind every element whose score is not lower (the sort is stable)
InsertByScore(sorted, x) ==
    IF Len(sorted) = 0 THEN <<x>>
    ELSE IF x.priorityScore.value - sorted[Len(sorted)].priorityScore.value <= 0
         THEN Append(sorted, x)
    ELSE Append(InsertByScore(SubSeq(sorted, 1, Len(sorted) - 1), x), sorted[Len(sorted)])

RECURSIVE SortByScore(_)
SortByScore(rs) ==
    IF Len(rs) = 0 THEN <<>>
    ELSE InsertByScore(SortByScore(SubSeq(rs, 1, Len(rs) - 1)), rs[Len(rs)])

\* the arrangements of rs
Arrangements(rs) ==
    { [i \in 1..Len(rs) |-> rs[f[i]]] :
        f \in { g \in [1..Len(rs) -> 1..Len(rs)] :
                    \A i, j \in 1..Len(rs) : i # j => g[i] # g[j] } }

\* .sort((a, b) => b.priorityScore - a.priorityScore): the comparator returns
\* NaN as soon as one score is NaN, it is then not a consistent comparator and
\* the order of the result is left to the implementation
SortedByScore(rs) ==
    IF \E i \in 1..Len(rs) : rs[i].priorityScore.isNaN THEN Arrangements(rs)
    ELSE { SortByScore(rs) }

\* the priority lists the step can produce from the scored rules
PriorityRules(scored) ==
    { SubSeq(sorted, 1, Min({TopN, Len(sorted)})) : sorted \in SortedByScore(scored) }

\* prioritySummary (part_008 lines 495-517): the share of all occurrences and
\* of the audited pages that the rules of the priority list account for
prioritySummary(rs, priorityRules, totalPagesAudited) ==
    LET priorityPages ==
            UNION { {priorityRules[i].occurrences[n].page :
                        n \in 1..Len(priorityRules[i].occurrences)} :
                    i \in 1..Len(priorityRules) }
        priorityOccurrencesCount ==
            SumSeq([i \in 1..Len(priorityRules) |-> Len(priorityRules[i].occurrences)])
        totalOccurrencesOverall == SumSeq([i \in 1..Len(rs) |-> Len(rs[i].occurrences)])
    IN  [percentOfViolations |-> RoundPercent(priorityOccurrencesCount, totalOccurrencesOverall),
         percentOfPages |-> RoundPercent(Cardinality(priorityPages), totalPagesAudited)]

ExampleCom == "https://example.com"
UnknownHost == "http://unknown"

\* getSiteUrl(rawResults): protocol and host of the first record's url
getSiteUrl(rawResults) ==
    IF Len(rawResults) > 0 THEN rawResults[1].url[1] ELSE "Unknown site"

\* siteSlug of createAuditFiles: protocol and trailing slash removed, every
\* character outside [\w-] replaced by '_'
SiteSlug(siteUrl) ==
    CASE siteUrl = ExampleCom -> "example_com"
      [] siteUrl = UnknownHost -> "unknown"
      [] siteUrl = "Unknown site" -> "Unknown_site"

----------------------------------------------------------------------------
(* lib/io/historyDiscovery.js and the timestamps of lib/io/auditFiles.js *)

\* new Date().toISOString() at instant t, e.g. 2026-11-02T22:30:48.123Z
IsoString(t) == [fmt |-> "iso", t |-> t]

\* createAuditFiles: toISOString().replace(/[:.]/g, '-'), 2026-11-02T22-30-48-123Z
createTimestamp(t) == [IsoString(t) EXCEPT !.fmt = "dashed"]

\* new Date(dateRaw).getTime(): the time value of an ISO string; a string whose
\* time part has no colons is not a date-time string and yields NaN
DateTime(dateRaw) == IF dateRaw.fmt = "iso" THEN Number(dateRaw.t) ELSE NaN

\* dateRaw.split('T')[0]: the date part, which the replacement leaves as it was
\* (every instant of the model falls on a day of its own)
DatePart(dateRaw) == dateRaw.t

HISTORY_LIMIT == 10

HistoryWeights == [critical |-> 10, serious |-> 5, moderate |-> 2, minor |-> 1]

\* faulty variant: the weights of the priority score, and none for other impacts
HistoryWeightAsPriority(impact) ==
    IF impact \in DOMAIN PriorityWeights THEN PriorityWeights[impact] ELSE 0

\* IMPACT_WEIGHTS[impact] || 1
HistoryWeight(impact) ==
    IF impact \in DOMAIN HistoryWeights THEN HistoryWeights[impact] ELSE 1

\* a JSON array is held as [array |-> its elements]
JsonArray(items) == [array |-> items]
IsArray(data) == "array" \in DOMAIN data

\* siteSlug.replace(/^www[-_]/, '')
CoreSlug(siteSlug) ==
    CASE siteSlug = "www_example_com" -> "example_com"
      [] OTHER -> siteSlug

\* the slug as the case-insensitive pattern with [-_] for '-' and '_' reads it
FoldSlug(slug) ==
    CASE slug = "Unknown_site" -> "unknown_site"
      [] slug = "example-com" -> "example_com"
      [] OTHER -> slug

\* the folded slugs that contain the folded core slug
SlugContains(slug, core) ==
    \/ FoldSlug(slug) = FoldSlug(core)
    \/ FoldSlug(core) = "example_com" /\ FoldSlug(slug) = "www_example_com"
    \/ FoldSlug(core) = "unknown" /\ FoldSlug(slug) = "unknown_site"

\* filePattern.test(f): the core slug somewhere in the name, '.json' at its end
MatchesSite(name, siteSlug) ==
    /\ name.kind \in {"audit", "latest"}
    /\ SlugContains(name.slug, CoreSlug(siteSlug))

\* what makes the body of the inner try throw: the file cannot be read, is not
\* JSON, or holds null (data.timestamp of null)
PointThrows(content) ==
    \/ content.kind \in {"garbage", "unreadable"}
    \/ content.kind = "json" /\ IsNull(content.data)

\* the point of one matching file (lines 33-71), Null when the file is skipped
PointOf(content) ==
    IF PointThrows(content) THEN Null
    ELSE LET data == content.data
             dateRaw == IF "timestamp" \in DOMAIN data THEN data.timestamp
                        ELSE IsoString(content.mtime)
             violations(page) == IF "violations" \in DOMAIN page THEN page.violations
                                 ELSE <<>>
             pageCounts(page) == [v \in 1..Len(violations(page)) |->
                                    Len(violations(page)[v].nodes)]
             pagePenalties(page) ==
                 [v \in 1..Len(violations(page)) |->
                    Len(violations(page)[v].nodes) * HistoryWeight(violations(page)[v].impact)]
             count(r) == IF "occurrences" \in DOMAIN r THEN Len(r.occurrences) ELSE 0
             field(f) == IF f \in DOMAIN data THEN data[f] ELSE 0
             totals ==
                 IF IsArray(data)
                 THEN [pageCount |-> Len(data.array),
                       violationCount |->
                           SumSeq([k \in 1..Len(data.array) |-> SumSeq(pageCounts(data.array[k]))]),
                       totalPenalty |->
                           SumSeq([k \in 1..Len(data.array) |-> SumSeq(pagePenalties(data.array[k]))])]
                 ELSE IF "rules" \in DOMAIN data
                 THEN [pageCount |-> IF field("pagesAudited") # 0 THEN field("pagesAudited")
                                     ELSE IF field("pageCount") # 0 THEN field("pageCount")
                                     ELSE IF "urls" \in DOMAIN data THEN Len(data.urls)
                                     ELSE 0,
                       violationCount |->
                           SumSeq([i \in 1..Len(data.rules) |-> count(data.rules[i])]),
                       totalPenalty |->
                           SumSeq([i \in 1..Len(data.rules) |->
                                     count(data.rules[i]) * HistoryWeight(data.rules[i].impact)])]
                 ELSE [pageCount |-> 0, violationCount |-> 0, totalPenalty |-> 0]
         IN  [date |-> DatePart(dateRaw),
              violationCount |-> totals.violationCount,
              totalPenalty |-> totals.totalPenalty,
              pageCount |-> totals.pageCount,
              timestamp |-> DateTime(dateRaw)]

RECURSIVE KeepPoints(_)
\* faulty variant: one skipped file empties the series
KeepPointsOrAbort(points) ==
    IF \E i \in 1..Len(points) : IsNull(points[i]) THEN <<>> ELSE points

\* .filter(Boolean): the skipped files leave no entry
KeepPoints(points) ==
    IF Len(points) = 0 THEN <<>>
    ELSE IF IsNull(points[1]) THEN KeepPoints(Tail(points))
    ELSE <<points[1]>> \o KeepPoints(Tail(points))

\* a.timestamp - b.timestamp as the sort reads it: NaN counts as 0
TimestampOrder(a, b) ==
    IF a.timestamp.isNaN \/ b.timestamp.isNaN THEN 0
    ELSE a.timestamp.value - b.timestamp.value

RECURSIVE InsertByTimestamp(_, _)
\* x placed behind every element that does not sort after it (the sort is stable)
InsertByTimestamp(sorted, x) ==
    IF Len(sorted) = 0 THEN <<x>>
    ELSE IF TimestampOrder(sorted[Len(sorted)], x) <= 0 THEN Append(sorted, x)
    ELSE Append(InsertByTimestamp(SubSeq(sorted, 1, Len(sorted) - 1), x),
                sorted[Len(sorted)])

RECURSIVE SortByTimestamp(_)
SortByTimestamp(points) ==
    IF Len(points) = 0 THEN <<>>
    ELSE InsertByTimestamp(SortByTimestamp(SubSeq(points, 1, Len(points) - 1)),
                           points[Len(points)])

\* .sort((a, b) => a.timestamp - b.timestamp): with some timestamps NaN and
\* others not the comparator is not consistent and the order is left to the
\* implementation; with all of them NaN every pair compares equal
SortedByTimestamp(points) ==
    IF /\ \E i \in 1..Len(points) : points[i].timestamp.isNaN
       /\ \E i \in 1..Len(points) : ~points[i].timestamp.isNaN
    THEN Arrangements(points)
    ELSE { SortByTimestamp(points) }

\* .slice(-HISTORY_LIMIT)
LastPoints(points) ==
    IF Len(points) <= HISTORY_LIMIT THEN points
    ELSE SubSeq(points, Len(points) - HISTORY_LIMIT + 1, Len(points))

RECURSIVE MatchingFiles(_, _)
\* files.filter(f => filePattern.test(f)), in the order of the listing
MatchingFiles(listing, siteSlug) ==
    IF Len(listing) = 0 THEN <<>>
    ELSE (IF MatchesSite(listing[1].name, siteSlug) THEN <<listing[1]>> ELSE <<>>)
         \o MatchingFiles(Tail(listing), siteSlug)

\* a results directory that does not exist
MissingDir == [missing |-> TRUE]
IsMissing(dir) == "missing" \in DOMAIN dir

\* getHistoryData(resultsDir, siteSlug): the series it can return; dir is
\* MissingDir or [listing |-> the entries in the order readdirSync lists them]
getHistoryData(dir, siteSlug) ==
    IF IsMissing(dir) THEN { <<>> }
    ELSE LET matching == MatchingFiles(dir.listing, siteSlug)
             points == [i \in 1..Len(matching) |-> PointOf(matching[i].content)]
         IN  { LastPoints(sorted) : sorted \in SortedByTimestamp(KeepPoints(points)) }

----------------------------------------------------------------------------
(* scripts/process-results.js: the scan results and the steps of a run *)

\* raw-axe-results.json as run-audit leaves it
Node(html, segs) == [html |-> html, target |-> ArrayTarget(segs)]
Violation(id, impact, nodes) == [id |-> id, impact |-> impact, nodes |-> nodes]
PageResult(url, violations) == [url |-> url, violations |-> violations]

ImgA == Node(<<"<img>">>, << <<"main">>, <<"img.a">> >>)
ImgB == Node(<<"<img>">>, << <<"main">>, <<"img.b">> >>)
Input == Node(<<"<input>">>, << <<"form">>, <<"input">> >>)

RawOf(origin) ==
    LET p1 == <<origin, "/", "p1">>
        p2 == <<origin, "/", "p2">>
    IN  { << PageResult(p1, <<>>) >>,
          << PageResult(p1, << Violation(ImageAlt, "critical", <<ImgA>>) >>) >>,
          << PageResult(p1, << Violation(ImageAlt, "critical", <<ImgA, ImgB>>) >>) >>,
          << PageResult(p1, << Violation(ImageAlt, "critical", <<ImgA>>) >>),
             PageResult(p2, << Violation(Label, "minor", <<Input>>),
                               Violation(ImageAlt, "critical", <<ImgA>>) >>) >> }

RawInputs == RawOf(ExampleCom) \cup RawOf(UnknownHost) \cup { <<>> }

Init ==
    /\ NoProcess
    /\ files = <<>>
    /\ pc = "idle" /\ run = Idle /\ rules = <<>> /\ given = <<>>
    /\ ret = <<>> /\ calls = 0 /\ runNo = 0
    /\ kin = Idle /\ kout = Idle

\* lines 425-517: load the raw results, name the output files, aggregate,
\* enrich and score the rules
StartRun ==
    /\ pc = "idle" /\ runNo < MaxRuns
    /\ \E rawResults \in RawInputs :
          LET siteUrl == getSiteUrl(rawResults)
              scored == ScoreRules(enrichRules(aggregateRules(rawResults)))
          IN  /\ run' = [siteUrl |-> siteUrl, siteSlug |-> SiteSlug(siteUrl),
                         timestamp |-> createTimestamp(runNo + 1),
                         pagesAudited |-> Len(rawResults)]
              /\ rules' = scored
              /\ given' = scored
    /\ runNo' = runNo + 1
    /\ pc' = "ranked"
    /\ ret' = <<>> /\ calls' = 0
    /\ UNCHANGED <<procVars, files, kin, kout>>

\* line 522: const { diffTotals } = diffRules(rules, RESULTS_DIR, AXE_RULE_METADATA)
DiffStep ==
    /\ pc = "ranked"
    /\ LET r == diffRules(rules, files, <<>>, Null)
       IN  /\ rules' = r.rules
           /\ ret' = <<r>>
    /\ calls' = 1
    /\ pc' = "diffed"
    /\ UNCHANGED <<procVars, files, run, runNo, given, kin, kout>>

\* the report files createAuditFiles names next to the snapshot
CsvFile(slug, ts) == [kind |-> "csv", slug |-> slug, ts |-> ts]
HtmlFile(slug, ts) == [kind |-> "html", slug |-> slug, ts |-> ts]

\* fs.writeFileSync(path, content)
WriteFile(fs, name, content) == (name :> content) @@ fs

\* faulty variant: the copy is cut short and leaves no JSON text in the target
CopyFileCutShort(fs, from, to) == (to :> GarbageFile) @@ fs

\* fs.copyFileSync(from, to)
CopyFile(fs, from, to) == (to :> fs[from]) @@ fs

\* writeAuditJson, first statement (auditFiles.js line 69): the snapshot file
WriteJson ==
    /\ pc = "diffed"
    /\ LET json == ToJson([site |-> run.siteUrl, pagesAudited |-> run.pagesAudited,
                           rules |-> rules, diffTotals |-> ret[1].diffTotals,
                           timestamp |-> run.timestamp])
       IN  files' = WriteFile(files, AuditFile(run.siteSlug, run.timestamp), json)
    /\ pc' = "snapshot"
    /\ UNCHANGED <<procVars, run, rules, ret, calls, runNo, given, kin, kout>>

\* writeAuditJson, second statement (line 70): the snapshot copied as latest
CopyLatest ==
    /\ pc = "snapshot"
    /\ files' = CopyFile(files, AuditFile(run.siteSlug, run.timestamp),
                         LatestFile(run.siteSlug))
    /\ pc' = "written"
    /\ UNCHANGED <<procVars, run, rules, ret, calls, runNo, given, kin, kout>>

\* writeAuditCsv(rules, CSV_FILE): one row per occurrence
WriteCsv ==
    /\ pc = "written"
    /\ files' = WriteFile(files, CsvFile(run.siteSlug, run.timestamp),
                          [kind |-> "csv",
                           rows |-> SumSeq([i \in 1..Len(rules) |-> Len(rules[i].occurrences)])])
    /\ pc' = "csv"
    /\ UNCHANGED <<procVars, run, rules, ret, calls, runNo, given, kin, kout>>

\* the orders in which readdirSync can list the files of this set of names
ListingsOf(fs, names) ==
    { [k \in 1..Cardinality(names) |-> [name |-> f[k], content |-> fs[f[k]]]] :
        f \in { g \in [1..Cardinality(names) -> names] :
                    \A i, j \in 1..Cardinality(names) : i # j => g[i] # g[j] } }

\* writeAuditHtml: the history is read from the results directory, which holds
\* the snapshot just written, and the report goes to HTML_FILE
WriteHtml ==
    /\ pc = "csv"
    /\ \E listing \in ListingsOf(files, {f \in DOMAIN files : MatchesSite(f, run.siteSlug)}) :
          \E history \in getHistoryData([listing |-> listing], run.siteSlug) :
              files' = WriteFile(files, HtmlFile(run.siteSlug, run.timestamp),
                                 [kind |-> "html", history |-> history])
    /\ pc' = "html"
    /\ UNCHANGED <<procVars, run, rules, ret, calls, runNo, given, kin, kout>>

\* the scorecard, the CI gate and the exit of the script
FinishRun ==
    /\ pc = "html"
    /\ pc' = "idle"
    /\ UNCHANGED <<procVars, files, run, rules, ret, calls, runNo, given, kin, kout>>

Next == StartRun \/ DiffStep \/ WriteJson \/ CopyLatest \/ WriteCsv \/ WriteHtml \/ FinishRun

Spec == Init /\ [][Next]_vars

\* the occurrence keys a snapshot holds for a rule id
SnapshotKeys(snapshot, id) ==
    UNION { OccKeySet(snapshot.rules[j]) :
            j \in {k \in 1..Len(snapshot.rules) : snapshot.rules[k].id = id} }

SnapshotIds(snapshot) == {snapshot.rules[j].id : j \in 1..Len(snapshot.rules)}

\* C1: a run that follows a persisted run of the same site diffs against that
\* run's snapshot (the site's latest pointer): occurrences absent from it are
\* new, occurrences only it holds are resolved, rules absent from it are new
C1_NextRunDiffsAgainstLatestOfSite ==
    (pc = "diffed" /\ LatestFile(run.siteSlug) \in DOMAIN files) =>
        LET prev == files[LatestFile(run.siteSlug)].data
        IN  \A i \in 1..Len(rules) :
               LET cur == OccKeySet(given[i])
                   old == SnapshotKeys(prev, given[i].id)
               IN  /\ rules[i].diff.new = Cardinality(cur \ old)
                   /\ rules[i].diff.resolved = Cardinality(old \ cur)
                   /\ rules[i].isNewRule = (given[i].id \notin SnapshotIds(prev))

----------------------------------------------------------------------------
(* aggregateRules and the priority step applied to bounded scan results *)

LinkName == <<"link-name">>
CustomRule == <<"custom-rule">>

\* the rule ids of the scan results, in the order a page reports them
AggIdOrder == << ImageAlt, LinkName, Label, CustomRule >>
AggRuleIds == { AggIdOrder[i] : i \in 1..Len(AggIdOrder) }

\* "unknown" stands for an impact IMPACT_ORDER and IMPACT_WEIGHTS do not list
AggImpactOf(id) ==
    CASE id = ImageAlt -> "critical"
      [] id = LinkName -> "critical"
      [] id = Label -> "minor"
      [] OTHER -> "unknown"

LinkA == Node(<<"<a>">>, << <<"nav">>, <<"a">> >>)
Widget == Node(<<"<div>">>, << <<"div.widget">> >>)

\* the elements a rule matches on a page; only image-alt can match two
AggNodesOf(id, n) ==
    CASE id = ImageAlt -> SubSeq(<<ImgA, ImgB>>, 1, n)
      [] id = LinkName -> <<LinkA>>
      [] id = Label -> <<Input>>
      [] OTHER -> <<Widget>>

AggPageNames == << "p1", "p2", "p3", "p4" >>
AggUrl(k) == <<ExampleCom, "/", AggPageNames[k]>>

\* the url lists of n scan records: n distinct pages, or with the last record
\* being the first page again, spelled the same or with a trailing slash
AggUrlLists(n) ==
    LET distinct == [k \in 1..n |-> AggUrl(k)]
    IN  IF n < 2 THEN { distinct }
        ELSE { distinct,
               [distinct EXCEPT ![n] = AggUrl(1)],
               [distinct EXCEPT ![n] = AggUrl(1) \o <<"/">>] }

\* what one page reports: which rules, and how many images image-alt matched
AggPageOptions ==
    { [ids |-> S, imgs |-> k] :
        S \in { T \in SUBSET AggRuleIds : Cardinality(T) <= MaxViolations },
        k \in {1, 2} } \ { [ids |-> S, imgs |-> 2] : S \in SUBSET (AggRuleIds \ {ImageAlt}) }

RECURSIVE AggViolations(_, _)
\* the violations of a page, in the order of the id list
AggViolations(opt, order) ==
    IF Len(order) = 0 THEN <<>>
    ELSE (IF order[1] \in opt.ids
          THEN << Violation(order[1], AggImpactOf(order[1]), AggNodesOf(order[1], opt.imgs)) >>
          ELSE <<>>) \o AggViolations(opt, Tail(order))

AggInputsOfLen(n) ==
    { [k \in 1..n |-> PageResult(urls[k], AggViolations(opts[k], AggIdOrder))] :
        urls \in AggUrlLists(n), opts \in [1..n -> AggPageOptions] }

InitAgg ==
    /\ NoProcess
    /\ \E n \in 0..MaxAggPages : kin \in AggInputsOfLen(n)
    /\ pc = "raw" /\ rules = <<>> /\ given = <<>>
    /\ files = <<>> /\ run = Idle /\ ret = <<>> /\ calls = 0 /\ runNo = 0
    /\ kout = Idle

\* const { rules: aggregatedRules, summary } = aggregateRules(rawResults, { stripChildren })
\* and enrichRules on its result
Aggregate ==
    /\ pc = "raw"
    /\ rules' = enrichRules(aggregateRules(kin))
    /\ given' = rules'
    /\ ret' = << [summary |-> aggregateSummary(kin)] >>
    /\ pc' = "aggregated"
    /\ UNCHANGED <<procVars, files, run, calls, runNo, kin, kout>>

\* the map of the priority step: priorityScore and pagesAffected are written
\* into the rule objects that are persisted later
ScoreStep ==
    /\ pc = "aggregated"
    /\ rules' = ScoreRules(rules)
    /\ pc' = "scored"
    /\ UNCHANGED <<procVars, files, run, ret, calls, runNo, given, kin, kout>>

NextAgg == Aggregate \/ ScoreStep

SpecAgg == InitAgg /\ [][NextAgg]_vars

Aggregated == pc \in {"aggregated", "scored"}

\* C11: whatever scan records aggregateRules is given, no two occurrences of
\* one rule of the resulting rule set have the same occurrence key
C11_OccurrenceKeysUnique ==
    Aggregated =>
        \A i \in 1..Len(rules) :
            \A m, n \in 1..Len(rules[i].occurrences) :
                m # n => KeysOf(rules[i])[m] # KeysOf(rules[i])[n]

\* C12: a rule is systemic exactly when its pagesAffected equals the number of
\* pages audited and more than one page was audited, both as aggregateRules
\* returns it and after the priority step has rewritten pagesAffected
C12_SystemicIffOnEveryPage ==
    Aggregated =>
        \A i \in 1..Len(rules) :
            rules[i].isSystemic <=>
                (rules[i].pagesAffected = Len(kin) /\ Len(kin) > 1)

C12_Witness ==
    /\ pc = "scored" /\ Len(kin) > 1
    /\ \E i, j \in 1..Len(rules) : rules[i].isSystemic /\ ~rules[j].isSystemic

\* the rule ids the scan records report
ReportedIds(rawResults) ==
    UNION { { rawResults[k].violations[v].id : v \in 1..Len(rawResults[k].violations) } :
            k \in 1..Len(rawResults) }

Recognized(impact) == impact \in {"critical", "serious", "moderate", "minor"}

\* C15: aggregateRules returns every reported rule, sorted: by impact rank
\* (critical, serious, moderate, minor, then unrecognized), within a rank
\* systemic rules first, within that by occurrence count, largest first
C15_RulesSortedByRankSystemicCount ==
    pc = "aggregated" =>
        /\ {rules[i].id : i \in 1..Len(rules)} = ReportedIds(kin)
        /\ \A i \in 1..Len(rules) - 1 :
              LET a == rules[i]
                  b == rules[i + 1]
              IN  /\ ImpactRank(a.impact) <= ImpactRank(b.impact)
                  /\ ImpactRank(a.impact) = ImpactRank(b.impact) =>
                        /\ ~(b.isSystemic /\ ~a.isSystemic)
                        /\ a.isSystemic = b.isSystemic =>
                              Len(a.occurrences) >= Len(b.occurrences)
        /\ \A i, j \in 1..Len(rules) :
              (~Recognized(rules[i].impact) /\ Recognized(rules[j].impact)) => j < i

C15_Witness ==
    /\ pc = "aggregated" /\ Len(rules) >= 3
    /\ ~Recognized(rules[Len(rules)].impact)
    /\ \E i \in 1..Len(rules) - 1 :
          /\ rules[i].impact = rules[i + 1].impact
          /\ rules[i].isSystemic /\ ~rules[i + 1].isSystemic
          /\ Len(rules[i].occurrences) <= Len(rules[i + 1].occurrences)

\* the matched elements the scan records report for a rule id on a page url
MatchedOn(rawResults, id, url) ==
    SumSeq([k \in 1..Len(rawResults) |->
              IF rawResults[k].url # url THEN 0
              ELSE SumSeq([v \in 1..Len(rawResults[k].violations) |->
                             IF rawResults[k].violations[v].id = id
                             THEN Len(rawResults[k].violations[v].nodes) ELSE 0])])

RawUrls(rawResults) == {rawResults[k].url : k \in 1..Len(rawResults)}

\* C22: aggregateRules returns one rule per reported rule id; a rule holds one
\* occurrence per matched element of its id, page by page, so that the
\* occurrences add up to the matched elements of the input; pagesAffected is
\* the number of distinct page urls reporting the rule; no scan record at all
\* gives no rule and a summary of zeros
C22_GroupsWithoutLoss ==
    pc = "aggregated" =>
        /\ {rules[i].id : i \in 1..Len(rules)} = ReportedIds(kin)
        /\ Len(rules) = Cardinality(ReportedIds(kin))
        /\ \A i \in 1..Len(rules) :
              /\ \A u \in RawUrls(kin) :
                    Cardinality({n \in 1..Len(rules[i].occurrences) :
                                    rules[i].occurrences[n].page = u})
                        = MatchedOn(kin, rules[i].id, u)
              /\ \A n \in 1..Len(rules[i].occurrences) :
                    rules[i].occurrences[n].page \in RawUrls(kin)
              /\ rules[i].pagesAffected =
                    Cardinality({u \in RawUrls(kin) : MatchedOn(kin, rules[i].id, u) > 0})
        /\ SumSeq([i \in 1..Len(rules) |-> Len(rules[i].occurrences)])
              = SumSeq([k \in 1..Len(kin) |->
                          SumSeq([v \in 1..Len(kin[k].violations) |->
                                     Len(kin[k].violations[v].nodes)])])
        /\ Len(kin) = 0 =>
              /\ rules = <<>>
              /\ ret[1].summary = [topRulesNames |-> <<>>,
                                   violationPercentage |-> Number(0),
                                   pagePercentage |-> Number(0)]

\* a rule reported by two scan records, with two matched elements on one of them
C22_Witness ==
    /\ pc = "aggregated" /\ Len(kin) = 2 /\ Len(rules) >= 2
    /\ \E i \in 1..Len(rules) :
          /\ Len(rules[i].occurrences) = 3 /\ rules[i].pagesAffected = 2

----------------------------------------------------------------------------
(* the priority summary of scan results reporting up to seven rules *)

ColorContrast == <<"color-contrast">>
Region == <<"region">>
ListRule == <<"list">>
HeadingOrder == <<"heading-order">>

\* the rule ids of these scan results, in the order a page reports them
SumIdOrder == << ImageAlt, ColorContrast, Region, Label, LinkName, ListRule, HeadingOrder >>

SumImpactOf(id) ==
    CASE id \in {ImageAlt, LinkName} -> "critical"
      [] id \in {ColorContrast, ListRule} -> "serious"
      [] id \in {Region, HeadingOrder} -> "moderate"
      [] OTHER -> "minor"

\* a page reports the first k or the last k rules of the list
SumPageOptions ==
    { SubSeq(SumIdOrder, 1, k) : k \in 0..Len(SumIdOrder) }
        \cup { SubSeq(SumIdOrder, k, Len(SumIdOrder)) : k \in 1..Len(SumIdOrder) }

SumViolations(ids) ==
    [i \in 1..Len(ids) |->
        Violation(ids[i], SumImpactOf(ids[i]), AggNodesOf(ids[i], 2))]

SumInputsOfLen(n) ==
    { [k \in 1..n |-> PageResult(urls[k], SumViolations(opts[k]))] :
        urls \in AggUrlLists(n), opts \in [1..n -> SumPageOptions] }

InitSum ==
    /\ NoProcess
    /\ \E n \in 0..MaxSumPages : kin \in SumInputsOfLen(n)
    /\ pc = "raw" /\ rules = <<>> /\ given = <<>>
    /\ files = <<>> /\ run = Idle /\ ret = <<>> /\ calls = 0 /\ runNo = 0
    /\ kout = Idle

\* part_008 lines 467-517: aggregate, enrich, score, pick the priority list
\* and compute its summary
Summarize ==
    /\ pc = "raw"
    /\ rules' = ScoreRules(enrichRules(aggregateRules(kin)))
    /\ \E priorityRules \in PriorityRules(rules') :
          ret' = << [priorityRules |-> priorityRules,
                     prioritySummary |-> prioritySummary(rules', priorityRules, Len(kin))] >>
    /\ pc' = "summarized"
    /\ UNCHANGED <<procVars, files, run, calls, runNo, given, kin, kout>>

NextSum == Summarize

SpecSum == InitSum /\ [][NextSum]_vars

\* n is part / whole as a percentage rounded to the nearest integer, halves up
IsRoundedPercent(n, part, whole) ==
    /\ ~n.isNaN /\ n.value \in 0..100
    /\ 2 * n.value * whole <= 200 * part + whole
    /\ 200 * part + whole < 2 * (n.value + 1) * whole

----------------------------------------------------------------------------
(* the priority step applied to two rules of any impact and reach *)

RuleA == <<"rule-a">>
RuleB == <<"rule-b">>

ScoreImpacts == { "critical", "serious", "moderate", "minor", "unknown" }

\* the k-th page of the site
ReachPage(k) == <<ExampleCom, "/">> \o [i \in 1..k |-> "x"]

\* an enriched rule with one occurrence on each of n pages
ReachRule(id, impact, n) ==
    [id |-> id, displayName |-> id, impact |-> impact,
     occurrences |-> [k \in 1..n |->
                        [page |-> ReachPage(k), html |-> stripChildren(Widget.html),
                         target |-> JoinTarget(Widget.target)]],
     pagesAffected |-> n, isSystemic |-> FALSE]

InitScore ==
    /\ NoProcess
    /\ \E ia, ib \in ScoreImpacts, n \in 1..MaxReach, m \in {1, 5} :
          rules = << ReachRule(RuleA, ia, n), ReachRule(RuleB, ib, m) >>
    /\ given = rules
    /\ pc = "enriched" /\ ret = <<>>
    /\ files = <<>> /\ run = Idle /\ calls = 0 /\ runNo = 0
    /\ kin = Idle /\ kout = Idle

\* lines 482-493: the rules are scored in place, the priority list is the five
\* highest scores
Prioritize ==
    /\ pc = "enriched"
    /\ rules' = ScoreRules(rules)
    /\ ret' \in PriorityRules(rules')
    /\ pc' = "prioritized"
    /\ UNCHANGED <<procVars, files, run, calls, runNo, given, kin, kout>>

NextScore == Prioritize

SpecScore == InitScore /\ [][NextScore]_vars

\* C13: every rule is scored weight(impact) + pagesAffected, the weight being
\* 10000, 1000, 100, 10 for critical, serious, moderate, minor and 0 for any
\* other impact
C13_ScoreIsWeightPlusPages ==
    pc = "prioritized" =>
        \A i \in 1..Len(rules) :
            LET weight == IF Recognized(rules[i].impact)
                          THEN PriorityWeights[rules[i].impact] ELSE 0
            IN  rules[i].priorityScore = Number(weight + rules[i].pagesAffected)

\* the position of the rule with this id in the priority list, 0 if it is not in it
PriorityPosition(id) ==
    IF \E k \in 1..Len(ret) : ret[k].id = id
    THEN CHOOSE k \in 1..Len(ret) : ret[k].id = id
    ELSE 0

\* C14: of two rules the one of the higher severity tier has the strictly higher
\* score whatever their pagesAffected, and the priority list never has the
\* lower tier ahead of, or instead of, the higher one
C14_SeverityDominatesReach ==
    pc = "prioritized" =>
        \A i, j \in 1..Len(rules) :
            ImpactRank(rules[i].impact) < ImpactRank(rules[j].impact) =>
                /\ ~rules[i].priorityScore.isNaN /\ ~rules[j].priorityScore.isNaN
                /\ rules[i].priorityScore.value > rules[j].priorityScore.value
                /\ PriorityPosition(rules[j].id) # 0 =>
                      /\ PriorityPosition(rules[i].id) # 0
                      /\ PriorityPosition(rules[i].id) < PriorityPosition(rules[j].id)

----------------------------------------------------------------------------
(* diffRules called on a previous-snapshot file that is not a snapshot *)

\* what old.json holds: no JSON text, a directory, the JSON null, an object
\* without rules, or rules of which one has no occurrences
BadPrevFiles ==
    { GarbageFile, UnreadableFile,
      [kind |-> "json", data |-> Null],
      [kind |-> "json", data |-> [site |-> ExampleCom]],
      [kind |-> "json", data |-> [rules |-> << [id |-> ImageAlt, impact |-> "critical"] >>]] }

InitPrev ==
    /\ NoProcess
    /\ \E cur \in SeqsUpTo(DiffAtoms, MaxCurOcc) :
          /\ rules = RuleList(cur, Html1)
          /\ given = RuleList(cur, Html1)
    /\ \E bad \in BadPrevFiles : files = (OldJson :> bad)
    /\ pc = "diff" /\ calls = 0 /\ ret = <<>>
    /\ run = Idle /\ runNo = 0 /\ kin = Idle /\ kout = Idle

\* diffRules(currentRules, './tests/fixtures', {}, 'old.json'): it returns, or
\* the TypeError ends the script
CallDiffOnBadFile ==
    /\ pc = "diff"
    /\ LET r == diffRules(rules, files, <<>>, OldJson)
       IN  /\ ret' = <<r>>
           /\ rules' = IF Threw(r) THEN rules ELSE r.rules
           /\ pc' = IF Threw(r) THEN "threw" ELSE "returned"
    /\ calls' = 1
    /\ UNCHANGED <<procVars, files, run, runNo, given, kin, kout>>

NextPrev == CallDiffOnBadFile

SpecPrev == InitPrev /\ [][NextPrev]_vars

\* C17: when the previous-snapshot file exists but is unreadable, is not JSON,
\* or is JSON without the rules and occurrences of a snapshot, diffRules
\* returns, and returns what it returns without a previous snapshot
C17_BadPreviousFileIsAbsent ==
    pc \in {"returned", "threw"} =>
        /\ pc = "returned"
        /\ rules = DiffAgainst(given, Null, <<>>).rules
        /\ ret[1] = DiffAgainst(given, Null, <<>>)

----------------------------------------------------------------------------
(* getHistoryData applied to bounded results directories *)

HistSlug == "example_com"

\* what the audit at instant t found: image-alt always (on one or two images),
\* label at every second instant, a rule of unrecognized impact at every third
HistIdsAt(t) ==
    {ImageAlt} \cup (IF t % 2 = 0 THEN {Label} ELSE {})
               \cup (IF t % 3 = 0 THEN {CustomRule} ELSE {})

HistImgsAt(t) == (t % 2) + 1

\* the scan results of instant t
HistRaw(t) ==
    << PageResult(AggUrl(1),
                  AggViolations([ids |-> HistIdsAt(t), imgs |-> HistImgsAt(t)], AggIdOrder)) >>

\* the snapshot process-results writes from them, carrying this timestamp
HistSnapshot(t, timestamp) ==
    LET d == DiffAgainst(ScoreRules(enrichRules(aggregateRules(HistRaw(t)))), Null, <<>>)
    IN  ToJson([site |-> ExampleCom, pagesAudited |-> Len(HistRaw(t)),
                rules |-> d.rules, diffTotals |-> d.diffTotals,
                timestamp |-> timestamp])

\* the kinds of directory: snapshots as createAuditFiles stamps them, snapshots
\* stamped with an ISO string, raw scan results (dated by their mtime)
HistProfiles == { "snapshot", "isoSnapshot", "raw" }

HistStamp(profile, t) ==
    IF profile = "snapshot" THEN createTimestamp(t) ELSE IsoString(t)

HistContent(profile, t) ==
    IF profile = "raw" THEN [kind |-> "json", data |-> JsonArray(HistRaw(t)), mtime |-> t]
    ELSE ("mtime" :> t) @@ HistSnapshot(t, HistStamp(profile, t))

\* a file of the directory that is not what the others are: not JSON, not
\* readable, the JSON null, or a JSON object that is neither shape
HistOddKinds == { "garbage", "unreadable", "null", "other" }

HistOddContent(kind, profile, t) ==
    CASE kind = "garbage" -> ("mtime" :> t) @@ GarbageFile
      [] kind = "unreadable" -> ("mtime" :> t) @@ UnreadableFile
      [] kind = "null" -> [kind |-> "json", data |-> Null, mtime |-> t]
      [] OTHER ->
           [kind |-> "json", mtime |-> t,
            data |-> IF profile = "raw" THEN [site |-> ExampleCom]
                     ELSE [site |-> ExampleCom, timestamp |-> HistStamp(profile, t)]]

\* the orders in which the directory lists n files created at instants 1..n
HistOrders(n) ==
    { [k \in 1..n |-> k], [k \in 1..n |-> n + 1 - k], [k \in 1..n |-> (k % n) + 1] }

HistOdd(n) ==
    { [at |-> 0, kind |-> "none"] } \cup [at : 1..n, kind : HistOddKinds]

HistDirsOfLen(n) ==
    { [listing |->
          [k \in 1..n |->
              [name |-> AuditFile(HistSlug, order[k]),
               content |-> IF odd.at = order[k]
                           THEN HistOddContent(odd.kind, profile, order[k])
                           ELSE HistContent(profile, order[k])]]] :
        profile \in HistProfiles, order \in HistOrders(n), odd \in HistOdd(n) }

HistDirs == { MissingDir } \cup UNION { HistDirsOfLen(n) : n \in 0..MaxHistFiles }

InitHist ==
    /\ NoProcess
    /\ kin \in [dir : HistDirs, siteSlug : {HistSlug}]
    /\ kout = Idle /\ pc = "history"
    /\ files = <<>> /\ run = Idle /\ rules = <<>> /\ given = <<>>
    /\ ret = <<>> /\ calls = 0 /\ runNo = 0

\* const history = getHistoryData(resultsDir, siteSlug)
ReadHistory ==
    /\ pc = "history"
    /\ kout' \in getHistoryData(kin.dir, kin.siteSlug)
    /\ pc' = "read"
    /\ UNCHANGED <<procVars, files, run, rules, ret, calls, runNo, given, kin>>

NextHist == ReadHistory

SpecHist == InitHist /\ [][NextHist]_vars

HistoryRead == pc = "read" /\ ~IsMissing(kin.dir)

\* the files of the listing that are JSON and not null
ParsedFiles ==
    { k \in 1..Len(kin.dir.listing) :
        /\ kin.dir.listing[k].content.kind = "json"
        /\ ~IsNull(kin.dir.listing[k].content.data) }

\* of these, the files of one of the two shapes
ShapedFiles ==
    { k \in ParsedFiles :
        \/ IsArray(kin.dir.listing[k].content.data)
        \/ "rules" \in DOMAIN kin.dir.listing[k].content.data }

\* the instant a file of the listing was created at
InstantOf(k) == kin.dir.listing[k].name.ts

\* the instants of the n most recent of these files
MostRecent(fs, n) ==
    { InstantOf(k) : k \in { j \in fs : Cardinality({i \in fs : InstantOf(i) > InstantOf(j)}) < n } }

\* C16: the points come in ascending chronological order and are those of the
\* 10 most recent files, in whatever order the directory lists the files, also
\* for snapshots carrying the timestamp createAuditFiles gives them
C16_HistoryAscendingMostRecent ==
    HistoryRead =>
        /\ \A i \in 1..Len(kout) - 1 : kout[i].date < kout[i + 1].date
        /\ {kout[i].date : i \in 1..Len(kout)} = MostRecent(ParsedFiles, HISTORY_LIMIT)

ParsedListing == SelectSeq(kin.dir.listing,
                           LAMBDA e : e.content.kind = "json" /\ ~IsNull(e.content.data))

PenaltyAt(t, critical, minor, other) ==
    HistImgsAt(t) * critical
    + (IF Label \in HistIdsAt(t) THEN minor ELSE 0)
    + (IF CustomRule \in HistIdsAt(t) THEN other ELSE 0)

\* the points of the files of either shape
ShapedPoints ==
    { i \in 1..Len(kout) : \E k \in ShapedFiles : InstantOf(k) = kout[i].date }

\* C20 as claimed: violationCount is the number of occurrences in the file and
\* totalPenalty weighs them 10000, 1000, 100, 10 and 0 for unrecognized impact
C20_PenaltyUsesPriorityWeights ==
    HistoryRead =>
        \A i \in ShapedPoints :
            /\ kout[i].violationCount = HistImgsAt(kout[i].date)
                                        + Cardinality(HistIdsAt(kout[i].date) \ {ImageAlt})
            /\ kout[i].totalPenalty = PenaltyAt(kout[i].date, 10000, 10, 0)

\* C20 amended: violationCount is the number of occurrences in the file and
\* totalPenalty weighs them 10, 5, 2, 1 for critical, serious, moderate, minor
\* and 1 for any other impact
C20_PenaltyUsesHistoryWeights ==
    HistoryRead =>
        \A i \in ShapedPoints :
            /\ kout[i].violationCount = HistImgsAt(kout[i].date)
                                        + Cardinality(HistIdsAt(kout[i].date) \ {ImageAlt})
            /\ kout[i].totalPenalty = PenaltyAt(kout[i].date, 10, 1, 1)

C20_Witness ==
    /\ HistoryRead
    /\ \E i \in ShapedPoints : CustomRule \in HistIdsAt(kout[i].date)
    /\ \E i \in ShapedPoints : Label \in HistIdsAt(kout[i].date)

----------------------------------------------------------------------------
(* Order of the file operations of a run (Spec) *)

Snapshot == AuditFile(run.siteSlug, run.timestamp)
Pointer == LatestFile(run.siteSlug)

\* the files of this kind that a step creates or changes
Touched(kind) ==
    { f \in DOMAIN files' : f.kind = kind /\ (f \notin DOMAIN files \/ files'[f] # files[f]) }

\* C19 as claimed: once the snapshot is written and the latest pointer updated,
\* the run does nothing more: no file is written and no history is read
C19_NothingFollowsThePointerUpdate ==
    [][(pc \in {"written", "csv", "html"}) => (files' = files)]_vars

\* what a step of a run may do to the files, by the position of the run
OrderedFileSteps ==
       /\ Touched("audit") # {} =>
             /\ pc = "diffed" /\ Len(ret) = 1 /\ Touched("audit") = {Snapshot}
             /\ Snapshot \notin DOMAIN files
       /\ pc = "snapshot" =>
             /\ pc' = "written"
             /\ files'[Pointer] = files[Snapshot]
             /\ \A f \in DOMAIN files' : f # Pointer => f \in DOMAIN files /\ files'[f] = files[f]
       /\ Touched("latest") # {} => pc = "snapshot"
       /\ Touched("csv") # {} => pc = "written"
       /\ Touched("html") # {} =>
             /\ pc = "csv"
             /\ files[Pointer] = files[Snapshot]
             /\ Len(files'[HtmlFile(run.siteSlug, run.timestamp)].history) >= 2

\* C19 amended: a run writes its snapshot once, after the diff and the ranking;
\* the next step updates the site's latest pointer to that snapshot and nothing
\* else; the CSV and HTML reports are written after that, the HTML report with
\* the history read from the directory that already holds the new snapshot,
\* and they leave snapshots and pointers alone
C19_SnapshotThenPointerThenReports == [][OrderedFileSteps]_vars

C19_Witness ==
    /\ pc = "html" /\ runNo = 2
    /\ files[Pointer] = files[Snapshot]
    /\ CsvFile(run.siteSlug, run.timestamp) \in DOMAIN files
    /\ Len(files[HtmlFile(run.siteSlug, run.timestamp)].history) >= 3

\* the trend series the reports written so far were rendered with
RenderedHistories ==
    { files[f].history : f \in {g \in DOMAIN files : files[g].kind = "html"} }

\* C30: the series a report is rendered with, read from the results directory
\* after the run's snapshot and latest pointer were written, holds at most one
\* point per run: no two of its points carry the date of the same run
C30_OnePointPerRun ==
    \A history \in RenderedHistories :
        \A i, j \in 1..Len(history) :
            i # j => history[i].date # history[j].date

----------------------------------------------------------------------------
(* lib/runAudit.js and scripts/run-audit.js: the scan of the url list *)

RawFile == NamedFile("raw-axe-results.json")

ScanUrls == << <<ExampleCom, "/", "p1">>, <<ExampleCom, "/", "p2">>,
               <<ExampleCom, "/", "p3">> >>

\* the two programs that hold the loop: the function and the script
RunAuditFn == "runAudit"
RunAuditScript == "run-audit.js"

\* the awaits of the loop at which the process can be handed a signal
LoopAwaits == { "launch", "newPage", "audit", "pageClose" }

At(where, i) == [at |-> where, i |-> i]

NoSignal == [signalAt |-> "none"]

\* an Error thrown by runAudit or by the browser
ScanError == [threw |-> "Error"]

InitScan ==
    /\ \E program \in {RunAuditFn, RunAuditScript}, n \in 0..MaxUrls :
          kin = [program |-> program, urls |-> SubSeq(ScanUrls, 1, n)]
    /\ pc = At("start", 0)
    /\ isShuttingDown = FALSE /\ browser = "null" /\ results = <<>>
    /\ files = (RawFile :> NoFile)
    /\ run = NoSignal /\ ret = <<>>
    /\ rules = <<>> /\ given = <<>> /\ calls = 0 /\ runNo = 0 /\ kout = Idle
    /\ progress = Idle /\ runningAuditProcess = Idle /\ audits = Idle

\* the program ends by an exception: runAudit rejects (after its finally),
\* the script dies of the uncaught exception without writing
Throws ==
    /\ pc' = At("finished", 0)
    /\ ret' = IF kin.program = RunAuditFn THEN <<ScanError>> ELSE << [exit |-> 1] >>
    /\ UNCHANGED files

\* runAudit lines 15-17 and 44-49, run-audit.js lines 14-17 and 45-48: the
\* url list is tested, the handlers are registered and the browser is launched
StartScan ==
    /\ pc = At("start", 0)
    /\ IF Len(kin.urls) = 0 THEN Throws
       ELSE /\ pc' = At("launch", 0)
            /\ UNCHANGED <<files, ret>>
    /\ UNCHANGED <<run, rules, calls, runNo, given, kin, kout, progress,
                   runningAuditProcess, audits, isShuttingDown, browser, results>>

\* shutdown(signal), first part: the flag is set and the browser, if there is
\* one, is told to close; a second signal returns at once
Signal ==
    /\ pc.at \in LoopAwaits \cup {"finalClose"}
    /\ ~isShuttingDown
    /\ isShuttingDown' = TRUE
    /\ browser' = IF browser = "open" THEN "closing" ELSE browser
    /\ run' = [signalAt |-> pc.at]
    /\ UNCHANGED <<files, pc, rules, ret, calls, runNo, given, kin, kout, progress,
                   runningAuditProcess, audits, results>>

\* shutdown(signal), after its await browser.close(): browser = null
ShutdownDone ==
    /\ browser = "closing" /\ isShuttingDown
    /\ browser' = "null"
    /\ UNCHANGED <<files, pc, run, rules, ret, calls, runNo, given, kin, kout, progress,
                   runningAuditProcess, audits, isShuttingDown, results>>

\* the statements behind the loop. runAudit picks its return value (lines
\* 132-137) before its finally closes the browser; the script closes the
\* browser (lines 86-91) before it tests the flag (lines 94-99)
LeaveLoop(b) ==
    /\ ret' = IF kin.program # RunAuditFn THEN ret
              ELSE IF isShuttingDown THEN << [returned |-> <<>>] >>
              ELSE << [returned |-> results] >>
    /\ pc' = At("finalClose", IF b = "null" THEN 0 ELSE 1)

\* for (const url of urls) { if (isShuttingDown) break; ... browser.newPage()
EnterLoop(i, b) ==
    IF i > Len(kin.urls) \/ isShuttingDown THEN LeaveLoop(b)
    ELSE pc' = At("newPage", i) /\ ret' = ret

\* browser = await puppeteer.launch() resolves
Launched ==
    /\ pc.at = "launch"
    /\ browser' = "open"
    /\ EnterLoop(1, "open")
    /\ UNCHANGED <<files, run, rules, calls, runNo, given, kin, kout, progress,
                   runningAuditProcess, audits, isShuttingDown, results>>

\* await browser.newPage() resolves: always on an open browser, possibly on one
\* that is closing
NewPageOpened ==
    /\ pc.at = "newPage"
    /\ pc' = At("audit", pc.i)
    /\ UNCHANGED <<files, run, rules, ret, calls, runNo, given, kin, kout, progress,
                   runningAuditProcess, audits, isShuttingDown, browser, results>>

\* await browser.newPage() rejects because the browser was closed under it:
\* the call is outside the try of the page, so the exception leaves the loop
NewPageRejected ==
    /\ pc.at = "newPage" /\ browser # "open"
    /\ Throws
    /\ browser' = "null"
    /\ UNCHANGED <<run, rules, calls, runNo, given, kin, kout, progress,
                   runningAuditProcess, audits, isShuttingDown, results>>

\* goto and analyze inside the try: one record is pushed, with the violations
\* or with the error; on a browser that is not open the page can only fail
AuditPage ==
    /\ pc.at = "audit"
    /\ \E ok \in IF browser = "open" THEN {TRUE, FALSE} ELSE {FALSE} :
          results' = Append(results, [url |-> kin.urls[pc.i], ok |-> ok])
    /\ pc' = At("pageClose", pc.i)
    /\ UNCHANGED <<files, run, rules, ret, calls, runNo, given, kin, kout, progress,
                   runningAuditProcess, audits, isShuttingDown, browser>>

\* finally { await page.close() } and the next turn of the loop
PageClosed ==
    /\ pc.at = "pageClose"
    /\ EnterLoop(pc.i + 1, browser)
    /\ UNCHANGED <<files, run, rules, calls, runNo, given, kin, kout, progress,
                   runningAuditProcess, audits, isShuttingDown, browser, results>>

\* the end of the program once the browser is closed: runAudit hands out the
\* value it picked, the script writes the file unless the flag is set
FinishScan ==
    /\ pc.at = "finalClose"
    /\ browser' = "null"
    /\ pc' = At("finished", 0)
    /\ IF kin.program = RunAuditFn THEN UNCHANGED <<files, ret>>
       ELSE IF isShuttingDown THEN ret' = << [exit |-> 1] >> /\ UNCHANGED files
       ELSE /\ files' = WriteFile(files, RawFile, [kind |-> "raw", results |-> results])
            /\ ret' = << [exit |-> 0] >>
    /\ UNCHANGED <<run, rules, calls, runNo, given, kin, kout, progress,
                   runningAuditProcess, audits, isShuttingDown, results>>

NextScan ==
    \/ StartScan \/ Signal \/ ShutdownDone \/ Launched \/ NewPageOpened
    \/ NewPageRejected \/ AuditPage \/ PageClosed \/ FinishScan

SpecScan == InitScan /\ [][NextScan]_vars

ScanFinished == pc.at = "finished"
Interrupted == run.signalAt \in LoopAwaits

\* one record per url, in the order of the url list
OnePerUrl(rs, urls) ==
    /\ Len(rs) = Len(urls)
    /\ \A k \in 1..Len(rs) : rs[k].url = urls[k]

\* C25: a signal delivered before every url has been processed makes runAudit
\* return an empty array and keeps the script from writing the raw-results
\* file; results are returned or written only by a loop that completed without
\* a signal, and then hold one record per input url in input order
C25_InterruptedAuditYieldsNothing ==
    ScanFinished =>
        /\ (Interrupted /\ kin.program = RunAuditFn) => ret = << [returned |-> <<>>] >>
        /\ (Interrupted /\ kin.program = RunAuditScript) => files[RawFile] = NoFile
        /\ (kin.program = RunAuditFn /\ ~Threw(ret[1]) /\ ret[1].returned # <<>>) =>
              ~Interrupted /\ OnePerUrl(ret[1].returned, kin.urls)
        /\ (kin.program = RunAuditScript /\ files[RawFile] # NoFile) =>
              ~Interrupted /\ OnePerUrl(files[RawFile].results, kin.urls)

----------------------------------------------------------------------------
(* scripts/server.js: the audit endpoints and the pipeline behind them *)

\* let runningAuditProcess = null; a child is named by the number of its audit
NoChild == 0

Progress(status, message) == [status |-> status, message |-> message]

\* the stages at which the pipeline of an audit still has something pending
PendingStages == { "fetchUrls", "run-audit", "process-results" }

InitServer ==
    /\ progress = Progress("idle", "")
    /\ runningAuditProcess = NoChild
    /\ audits = <<>>
    /\ ret = <<>>
    /\ files = <<>> /\ pc = Idle /\ run = Idle /\ rules = <<>> /\ given = <<>>
    /\ calls = 0 /\ runNo = 0 /\ kin = Idle /\ kout = Idle
    /\ isShuttingDown = FALSE /\ browser = Idle /\ results = Idle

\* POST /api/audit (lines 316-332): 409 while progress.status is 'running',
\* otherwise progress is replaced, the request answered and fetchUrls awaited
PostAudit ==
    /\ IF progress.status = "running"
       THEN /\ ret' = << [code |-> 409, error |-> "Audit already running"] >>
            /\ UNCHANGED <<progress, audits>>
       ELSE /\ Len(audits) < MaxAudits
            /\ progress' = Progress("running", "Fetching sitemap")
            /\ audits' = Append(audits, [stage |-> "fetchUrls", cancelled |-> FALSE,
                                         signalled |-> FALSE])
            /\ ret' = << [code |-> 200, status |-> "started"] >>
    /\ UNCHANGED <<files, pc, run, rules, calls, runNo, given, kin, kout,
                   runningAuditProcess, isShuttingDown, browser, results>>

\* the catch of the pipeline (lines 355-362) run by audit a
Catch(a, message) ==
    IF progress.status # "cancelled"
    THEN /\ progress' = Progress("error", message)
         /\ audits' = [audits EXCEPT ![a].stage = "error"]
    ELSE /\ progress' = progress
         /\ audits' = [audits EXCEPT ![a].stage = "dropped"]

\* await fetchUrls(url) resolves (lines 334-343): the url file is read and
\* run-audit is spawned, which runScript stores in runningAuditProcess
FetchUrlsResolved ==
    /\ \E a \in DOMAIN audits :
          /\ audits[a].stage = "fetchUrls"
          /\ progress' = [progress EXCEPT !.message = "Running accessibility audits"]
          /\ runningAuditProcess' = a
          /\ audits' = [audits EXCEPT ![a].stage = "run-audit"]
    /\ UNCHANGED <<files, pc, run, rules, ret, calls, runNo, given, kin, kout,
                   isShuttingDown, browser, results>>

\* await fetchUrls(url) rejects
FetchUrlsRejected ==
    /\ \E a \in DOMAIN audits :
          /\ audits[a].stage = "fetchUrls"
          /\ Catch(a, "fetchUrls failed")
    /\ UNCHANGED <<files, pc, run, rules, ret, calls, runNo, given, kin, kout,
                   runningAuditProcess, isShuttingDown, browser, results>>

\* child.on('close') of runScript (lines 294-311) and what the pipeline does
\* with the settled promise (lines 345-353 or the catch)
ChildClosed ==
    /\ \E a \in DOMAIN audits, code \in {0, 1} :
          /\ audits[a].stage \in {"run-audit", "process-results"}
          /\ runningAuditProcess' =
                IF audits[a].stage = "run-audit" THEN NoChild ELSE runningAuditProcess
          /\ IF progress.status = "cancelled" THEN Catch(a, "Audit cancelled")
             ELSE IF code # 0 THEN Catch(a, "Script exited")
             ELSE IF audits[a].stage = "run-audit"
             THEN /\ progress' = [progress EXCEPT !.message = "Processing results"]
                  /\ audits' = [audits EXCEPT ![a].stage = "process-results"]
             ELSE /\ progress' = Progress("done", "Audit complete!")
                  /\ audits' = [audits EXCEPT ![a].stage = "done"]
    /\ UNCHANGED <<files, pc, run, rules, ret, calls, runNo, given, kin, kout,
                   isShuttingDown, browser, results>>

\* POST /api/audit/cancel (lines 366-375). The audit cancelled is the one
\* started last: `cancelled` and `signalled` record what the request did
CancelAudit ==
    /\ IF progress.status # "running"
       THEN /\ ret' = << [code |-> 400, error |-> "No audit running"] >>
            /\ UNCHANGED <<progress, audits, runningAuditProcess>>
       ELSE /\ runningAuditProcess' = NoChild
            /\ progress' = Progress("cancelled", "Audit cancelled by user")
            /\ audits' = [a \in DOMAIN audits |->
                            [audits[a] EXCEPT
                                !.cancelled = @ \/ a = Len(audits),
                                !.signalled = @ \/ a = runningAuditProcess]]
            /\ ret' = << [code |-> 200, status |-> "cancelled"] >>
    /\ UNCHANGED <<files, pc, run, rules, calls, runNo, given, kin, kout,
                   isShuttingDown, browser, results>>

NextServer ==
    PostAudit \/ FetchUrlsResolved \/ FetchUrlsRejected \/ ChildClosed \/ CancelAudit

SpecServer == InitServer /\ [][NextServer]_vars

\* C24: once a cancel request has been accepted for an audit, no event of that
\* audit's pipeline sets progress.status to 'done' or 'error', whether or not
\* another audit has been started since
C24_CancelIsFinal ==
    \A a \in DOMAIN audits :
        audits[a].cancelled => audits[a].stage \notin {"done", "error"}

InFlight == { a \in DOMAIN audits : audits[a].stage \in PendingStages }

\* C26: at most one pipeline has a child running or a step pending, and while
\* the audit started last is running its run-audit child, runningAuditProcess
\* is that child
C26_OnePipelineInFlight ==
    /\ Cardinality(InFlight) <= 1
    /\ (audits # <<>> /\ progress.status = "running"
            /\ audits[Len(audits)].stage = "run-audit")
          => runningAuditProcess = Len(audits)

====
